---- MODULE Spec2Model ----
(***************************************************************************)
(* cast: content-addressed storage.                                        *)
(*                                                                         *)
(*   Spec    the Object Store (storage/local.rs): processes that run put,  *)
(*           get, exists and delete concurrently on one store directory,   *)
(*           and a crash of the whole program.                             *)
(*   SpecDb  the Metadata Store (db.rs): the SQL statements of MetadataDb  *)
(*           on the objects, datasets and transformations tables.          *)
(*   SpecDatasets  the dataset statements of MetadataDb, with the clock    *)
(*           that CURRENT_TIMESTAMP reads.                                 *)
(*   SpecLineage, SpecLineageFair  the transformation log and the          *)
(*           recursive query of get_transformation_chain, run level by     *)
(*           level.                                                        *)
(*   SpecCache  the transformation log, the clock, and                     *)
(*           find_cached_transformation.                                   *)
(*   SpecShard  two puts and a delete that share the shard directories.    *)
(*   SpecGc  the gc command on the store and the objects table.            *)
(*   SpecResurrect  delete_object followed by register_object.             *)
(*   SpecStats  get_stats, statement by statement, among other writers.    *)
(*   SpecTx  with_transaction and the statements run inside it.            *)
(*   SpecTransform  the transform command and its output manifest.         *)
(*   SpecOpen  MetadataDb::new on a fresh and on a migrated database.      *)
(*   SpecHash  the textual form of a content hash and its parser.          *)
(***************************************************************************)
EXTENDS Integers, Sequences, FiniteSets, TLC

\* ------------------------------------------------------------------ bounds

\* register_object calls on one hash while its row exists.
MaxRegs == 2
\* |delta| of one update_refs call.
MaxDelta == 2
\* |sum of the deltas| applied to one row.
MaxSum == 2
\* Rows of the transformations table.
MaxEdges == 2
\* Seconds the clock advances (CURRENT_TIMESTAMP has one-second resolution).
MaxNow == 1
\* Rows of the transformations table when the lineage is queried.
MaxChainEdges == 3
\* Rows of the transformations table when the cache is looked up.
MaxCacheEdges == 2
\* Levels of the recursive query whose rows are recorded; an acyclic log of
\* MaxChainEdges edges has no more levels.
MaxDepth == 3
\* Entries of a manifest's transformation history.
MaxHistory == 2

\* The processes (tasks) that call the Object Store concurrently.
Procs == {"p1", "p2"}

\* The payloads handed to put: byte strings over the bytes 1 and 2.
\* (0 is the byte a hole of a sparse file reads as.)
Payloads == {<<1, 1>>, <<2, 1>>}

\* ------------------------------------------------------------ Content Hasher

\* blake3::hash, scaled down: an injective digest of a byte string over the
\* bytes 1 and 2 (its bijective base-3 numeral), so that distinct payloads have
\* distinct hashes, as BLAKE3's collision resistance gives.
RECURSIVE blake3_hash(_)
blake3_hash(data) ==
    IF data = <<>> THEN 0 ELSE Head(data) + 3 * blake3_hash(Tail(data))

\* Blake3Hash::to_hex, scaled down from 64 hex digits to 5 binary digits.
to_hex(n) ==
    <<(n \div 16) % 2, (n \div 8) % 2, (n \div 4) % 2, (n \div 2) % 2, n % 2>>

\* Blake3Hash::from_bytes followed by to_hex: the hash of a payload as the hex
\* string the store's paths are built from.
from_bytes(data) == to_hex(blake3_hash(data) % 32)

Hashes == {from_bytes(x) : x \in Payloads}

\* -------------------------------------------------------------- Object Store

VARIABLES
    dirs,     \* the shard directories that exist under <root>/store
    files,    \* path -> content, for every object file that exists
    pc,       \* pc[p]: where process p is in its call ("idle" between calls)
    call,     \* call[p]: the call p runs or ran last, [op, arg]
    off,      \* off[p]: the offset of p's open file (bytes written so far)
    linked,   \* linked[p]: p's open file is still the file at its path
    ret,      \* ret[p]: what p's last finished call returned
    overlap,  \* overlap[p]: p's call ran while another process's call was running
    wrote,    \* wrote[p]: p's put created (and so wrote) the file
    anyDelete,\* a delete has been called in this behaviour
    crashed   \* the program has crashed in this behaviour

storeVars == <<dirs, files, pc, call, off, linked, ret, overlap, wrote, anyDelete, crashed>>

\* The Metadata Store (defined below).
VARIABLES
    objects,           \* the rows of table objects: [hash, size, refs, metadata]
    datasets,          \* the rows of table datasets
    transformations,   \* the rows of table transformations
    dataset_seq,       \* AUTOINCREMENT: the largest id table datasets has given out
    transformation_seq,\* AUTOINCREMENT: the largest id table transformations has given out
    now,               \* CURRENT_TIMESTAMP, in seconds
    dbret,             \* the last call of MetadataDb and what it returned
    chain,             \* the recursive query of get_transformation_chain in progress
    regs,              \* regs[h]: register_object calls on h since its row was created
    dsum,              \* dsum[h]: sum of the update_refs deltas applied to the row of h
    schema_version,    \* the rows of table schema_version, in the order of insertion
    migrations,        \* how many times apply_migration_v1 has run on the database
    conn,              \* conn[p]: where p's MetadataDb is between new and drop
    tx,                \* the transaction of with_transaction that is open, if one is
    stats,             \* the get_stats call in progress: the counts it has read so far
    deleted_refs       \* deleted_refs[h]: the refs the row of h had that delete_object removed last

\* The schema's bookkeeping and the open transaction.
metaVars == <<schema_version, migrations, conn, tx, stats, deleted_refs>>

dbVars == <<objects, datasets, transformations, dataset_seq, transformation_seq,
            now, dbret, chain, regs, dsum, metaVars>>

\* The program (main.rs) and the Content Hasher (hash.rs).
VARIABLES
    cli,               \* the last command of the program and what it printed
    hret               \* the last call of the Content Hasher's string functions

progVars == <<cli, hret>>

vars == <<storeVars, dbVars, progVars>>

\* LocalStorage::hash_to_path: store/{hex[:2]}/{hex[2:4]}/{hex}, as the list of
\* the path's components under the store directory.
hash_to_path(hex) == <<SubSeq(hex, 1, 2), SubSeq(hex, 3, 4), hex>>

\* Path::parent of an object path and of its parent.
parent(path) == <<path[1], path[2]>>
grandparent(path) == <<path[1]>>

\* Path::exists.
exists(path) == path \in DOMAIN files

NoCall == [op |-> "none", arg |-> <<>>]
NoRet == [status |-> "none", val |-> <<>>, content |-> <<>>]
Ok(v) == [status |-> "ok", val |-> v, content |-> <<>>]
Err(e) == [status |-> "err", val |-> e, content |-> <<>>]

\* A write that lands at the end of the file, whatever the descriptor's offset.
WriteAppend(content, o, chunk) == content \o chunk

\* What a write of `chunk` at offset `o` leaves in a file holding `content`:
\* the bytes land at o+1 .. o+Len(chunk); a gap before them reads as zeros.
WriteAt(content, o, chunk) ==
    LET n == IF Len(content) > o + Len(chunk) THEN Len(content) ELSE o + Len(chunk)
    IN [i \in 1..n |->
          IF i > o /\ i <= o + Len(chunk) THEN chunk[i - o]
          ELSE IF i <= Len(content) THEN content[i]
          ELSE 0]

\* A call of p begins: it overlaps every call that is running.
Begin(p) ==
    LET busy == {q \in Procs \ {p} : pc[q] # "idle"}
    IN overlap' = [q \in Procs |->
                     IF q = p THEN busy # {}
                     ELSE IF q \in busy THEN TRUE
                     ELSE overlap[q]]

\* A put that does not look whether the object is already there.
PutDedupOff(p, data) ==
    /\ pc[p] = "idle"
    /\ call' = [call EXCEPT ![p] = [op |-> "put", arg |-> data]]
    /\ Begin(p)
    /\ wrote' = [wrote EXCEPT ![p] = FALSE]
    /\ pc' = [pc EXCEPT ![p] = "put_mkdir"]
    /\ ret' = [ret EXCEPT ![p] = NoRet]
    /\ UNCHANGED <<dirs, files, off, linked, anyDelete, crashed>>

\* put, lines 81-92: hash the data, and return at once when the path exists.
PutCheck(p, data) ==
    /\ pc[p] = "idle"
    /\ call' = [call EXCEPT ![p] = [op |-> "put", arg |-> data]]
    /\ Begin(p)
    /\ wrote' = [wrote EXCEPT ![p] = FALSE]
    /\ IF exists(hash_to_path(from_bytes(data)))
       THEN /\ ret' = [ret EXCEPT ![p] = Ok(from_bytes(data))]
            /\ pc' = pc
       ELSE /\ ret' = [ret EXCEPT ![p] = NoRet]
            /\ pc' = [pc EXCEPT ![p] = "put_mkdir"]
    /\ UNCHANGED <<dirs, files, off, linked, anyDelete, crashed>>

\* put, lines 94-99: create_dir_all(parent).
PutMkdir(p) ==
    /\ pc[p] = "put_mkdir"
    /\ LET path == hash_to_path(from_bytes(call[p].arg))
       IN dirs' = dirs \cup {grandparent(path), parent(path)}
    /\ pc' = [pc EXCEPT ![p] = "put_create"]
    /\ UNCHANGED <<files, call, off, linked, ret, overlap, wrote, anyDelete, crashed>>

\* put, lines 101-104: File::create(path) creates the file, or truncates the one
\* that is there; it fails when the parent directory is gone.
PutCreate(p) ==
    /\ pc[p] = "put_create"
    /\ LET path == hash_to_path(from_bytes(call[p].arg))
       IN IF parent(path) \in dirs
          THEN /\ files' = [q \in DOMAIN files \cup {path} |->
                              IF q = path THEN <<>> ELSE files[q]]
               /\ off' = [off EXCEPT ![p] = 0]
               /\ linked' = [linked EXCEPT ![p] = TRUE]
               /\ wrote' = [wrote EXCEPT ![p] = TRUE]
               /\ pc' = [pc EXCEPT ![p] = "put_write"]
               /\ ret' = ret
          ELSE /\ ret' = [ret EXCEPT ![p] = Err("Failed to create file")]
               /\ pc' = [pc EXCEPT ![p] = "idle"]
               /\ UNCHANGED <<files, off, linked, wrote>>
    /\ UNCHANGED <<dirs, call, overlap, anyDelete, crashed>>

\* put, lines 106-108: write_all(data), one write of some of the remaining bytes
\* at a time. A descriptor whose file was unlinked writes to a file no path names.
PutWrite(p) ==
    /\ pc[p] = "put_write"
    /\ LET data == call[p].arg
           path == hash_to_path(from_bytes(data))
       IN IF off[p] = Len(data)
          THEN /\ pc' = [pc EXCEPT ![p] = "put_sync"]
               /\ UNCHANGED <<files, off>>
          ELSE \E k \in 1..(Len(data) - off[p]) :
                 /\ off' = [off EXCEPT ![p] = off[p] + k]
                 /\ files' = IF linked[p]
                             THEN [files EXCEPT ![path] =
                                     WriteAt(files[path], off[p],
                                                SubSeq(data, off[p] + 1, off[p] + k))]
                             ELSE files
                 /\ pc' = pc
    /\ UNCHANGED <<dirs, call, linked, ret, overlap, wrote, anyDelete, crashed>>

\* put, lines 110-116: sync_all, then return the hash.
PutSync(p) ==
    /\ pc[p] = "put_sync"
    /\ ret' = [ret EXCEPT ![p] = Ok(from_bytes(call[p].arg))]
    /\ pc' = [pc EXCEPT ![p] = "idle"]
    /\ off' = [off EXCEPT ![p] = 0]
    /\ linked' = [linked EXCEPT ![p] = FALSE]
    /\ UNCHANGED <<dirs, files, call, overlap, wrote, anyDelete, crashed>>

\* get, lines 119-127, followed by the caller's read of the file at the returned
\* path (fs::read in test_put_and_get).
Get(p, hex) ==
    /\ pc[p] = "idle"
    /\ call' = [call EXCEPT ![p] = [op |-> "get", arg |-> hex]]
    /\ Begin(p)
    /\ LET path == hash_to_path(hex)
       IN ret' = [ret EXCEPT ![p] =
                    IF exists(path)
                    THEN [status |-> "ok", val |-> path, content |-> files[path]]
                    ELSE Err("File not found in CAS")]
    /\ UNCHANGED <<dirs, files, pc, off, linked, wrote, anyDelete, crashed>>

\* exists, lines 129-131.
Exists(p, hex) ==
    /\ pc[p] = "idle"
    /\ call' = [call EXCEPT ![p] = [op |-> "exists", arg |-> hex]]
    /\ Begin(p)
    /\ ret' = [ret EXCEPT ![p] = Ok(exists(hash_to_path(hex)))]
    /\ UNCHANGED <<dirs, files, pc, off, linked, wrote, anyDelete, crashed>>

\* delete, lines 133-138: fail when no file is at the path.
DeleteCheck(p, hex) ==
    /\ pc[p] = "idle"
    /\ call' = [call EXCEPT ![p] = [op |-> "delete", arg |-> hex]]
    /\ Begin(p)
    /\ anyDelete' = TRUE
    /\ IF exists(hash_to_path(hex))
       THEN /\ ret' = [ret EXCEPT ![p] = NoRet]
            /\ pc' = [pc EXCEPT ![p] = "del_remove"]
       ELSE /\ ret' = [ret EXCEPT ![p] = Err("File not found for deletion")]
            /\ pc' = pc
    /\ UNCHANGED <<dirs, files, off, linked, wrote, crashed>>

\* delete, lines 140-142: remove_file(path). It unlinks the file from under
\* every descriptor open on it.
DeleteRemove(p) ==
    /\ pc[p] = "del_remove"
    /\ LET path == hash_to_path(call[p].arg)
       IN IF exists(path)
          THEN /\ files' = [q \in DOMAIN files \ {path} |-> files[q]]
               /\ linked' = [q \in Procs |->
                               IF /\ pc[q] \in {"put_write", "put_sync"}
                                  /\ hash_to_path(from_bytes(call[q].arg)) = path
                               THEN FALSE ELSE linked[q]]
               /\ pc' = [pc EXCEPT ![p] = "del_rmdir_parent"]
               /\ ret' = ret
          ELSE /\ ret' = [ret EXCEPT ![p] = Err("Failed to delete file")]
               /\ pc' = [pc EXCEPT ![p] = "idle"]
               /\ UNCHANGED <<files, linked>>
    /\ UNCHANGED <<dirs, call, off, overlap, wrote, anyDelete, crashed>>

\* A removal that takes the directory whatever is in it.
remove_dir_forced(d) == dirs \ {d}

\* fs::remove_dir: removes the directory only when nothing is in it; the caller
\* drops the error.
remove_dir(d) ==
    IF /\ \A q \in DOMAIN files : parent(q) # d /\ grandparent(q) # d
       /\ \A e \in dirs : Len(e) = 2 => <<e[1]>> # d
    THEN dirs \ {d}
    ELSE dirs

\* cleanup_empty_dirs, lines 162-166: remove_dir(parent).
DeleteRmdirParent(p) ==
    /\ pc[p] = "del_rmdir_parent"
    /\ dirs' = remove_dir(parent(hash_to_path(call[p].arg)))
    /\ pc' = [pc EXCEPT ![p] = "del_rmdir_grandparent"]
    /\ UNCHANGED <<files, call, off, linked, ret, overlap, wrote, anyDelete, crashed>>

\* A cleanup whose failure to remove the directory fails the delete.
DeleteRmdirGrandparentFatal(p) ==
    /\ pc[p] = "del_rmdir_grandparent"
    /\ dirs' = remove_dir(grandparent(hash_to_path(call[p].arg)))
    /\ ret' = [ret EXCEPT ![p] = IF dirs' = dirs THEN Err("Directory not empty")
                                 ELSE Ok(<<>>)]
    /\ pc' = [pc EXCEPT ![p] = "idle"]
    /\ UNCHANGED <<files, call, off, linked, overlap, wrote, anyDelete, crashed>>

\* cleanup_empty_dirs, lines 168-176, and delete's Ok(()) at line 149.
DeleteRmdirGrandparent(p) ==
    /\ pc[p] = "del_rmdir_grandparent"
    /\ dirs' = remove_dir(grandparent(hash_to_path(call[p].arg)))
    /\ ret' = [ret EXCEPT ![p] = Ok(<<>>)]
    /\ pc' = [pc EXCEPT ![p] = "idle"]
    /\ UNCHANGED <<files, call, off, linked, overlap, wrote, anyDelete, crashed>>

\* The program crashes and is started again: every call in progress is lost,
\* the store directory is as the calls left it.
Crash ==
    /\ crashed' = TRUE
    /\ pc' = [p \in Procs |-> "idle"]
    /\ call' = [p \in Procs |-> NoCall]
    /\ ret' = [p \in Procs |-> NoRet]
    /\ off' = [p \in Procs |-> 0]
    /\ linked' = [p \in Procs |-> FALSE]
    /\ overlap' = [p \in Procs |-> FALSE]
    /\ wrote' = [p \in Procs |-> FALSE]
    /\ UNCHANGED <<dirs, files, anyDelete>>

InitStore ==
    /\ dirs = {}
    /\ files = <<>>
    /\ pc = [p \in Procs |-> "idle"]
    /\ call = [p \in Procs |-> NoCall]
    /\ off = [p \in Procs |-> 0]
    /\ linked = [p \in Procs |-> FALSE]
    /\ ret = [p \in Procs |-> NoRet]
    /\ overlap = [p \in Procs |-> FALSE]
    /\ wrote = [p \in Procs |-> FALSE]
    /\ anyDelete = FALSE
    /\ crashed = FALSE

NextStore ==
    \/ \E p \in Procs, data \in Payloads : PutCheck(p, data) /\ UNCHANGED <<dbVars, progVars>>
    \/ \E p \in Procs : PutMkdir(p) /\ UNCHANGED <<dbVars, progVars>>
    \/ \E p \in Procs : PutCreate(p) /\ UNCHANGED <<dbVars, progVars>>
    \/ \E p \in Procs : PutWrite(p) /\ UNCHANGED <<dbVars, progVars>>
    \/ \E p \in Procs : PutSync(p) /\ UNCHANGED <<dbVars, progVars>>
    \/ \E p \in Procs, hex \in Hashes : Get(p, hex) /\ UNCHANGED <<dbVars, progVars>>
    \/ \E p \in Procs, hex \in Hashes : Exists(p, hex) /\ UNCHANGED <<dbVars, progVars>>
    \/ \E p \in Procs, hex \in Hashes : DeleteCheck(p, hex) /\ UNCHANGED <<dbVars, progVars>>
    \/ \E p \in Procs : DeleteRemove(p) /\ UNCHANGED <<dbVars, progVars>>
    \/ \E p \in Procs : DeleteRmdirParent(p) /\ UNCHANGED <<dbVars, progVars>>
    \/ \E p \in Procs : DeleteRmdirGrandparent(p) /\ UNCHANGED <<dbVars, progVars>>
    \/ Crash /\ UNCHANGED <<dbVars, progVars>>

\* Two objects of one shard directory: process p1 puts the bytes 1,1 while
\* process p2 puts the bytes 2,1, whose hash has the same first four hex
\* characters, and deletes them again.
NextShard ==
    \/ PutCheck("p1", <<1, 1>>) /\ UNCHANGED <<dbVars, progVars>>
    \/ PutCheck("p2", <<2, 1>>) /\ UNCHANGED <<dbVars, progVars>>
    \/ \E p \in Procs : PutMkdir(p) /\ UNCHANGED <<dbVars, progVars>>
    \/ \E p \in Procs : PutCreate(p) /\ UNCHANGED <<dbVars, progVars>>
    \/ \E p \in Procs : PutWrite(p) /\ UNCHANGED <<dbVars, progVars>>
    \/ \E p \in Procs : PutSync(p) /\ UNCHANGED <<dbVars, progVars>>
    \/ DeleteCheck("p2", from_bytes(<<2, 1>>)) /\ UNCHANGED <<dbVars, progVars>>
    \/ DeleteRemove("p2") /\ UNCHANGED <<dbVars, progVars>>
    \/ DeleteRmdirParent("p2") /\ UNCHANGED <<dbVars, progVars>>
    \/ DeleteRmdirGrandparent("p2") /\ UNCHANGED <<dbVars, progVars>>
    \/ Get("p1", from_bytes(<<1, 1>>)) /\ UNCHANGED <<dbVars, progVars>>

\* ------------------------------------------- Content Hasher: hash strings

\* The digests: blake3::Hash, scaled down from 32 bytes to 5 bits.
Digests == 0..31

\* The length of a hash's hex string (64, scaled down to the 5 digits of to_hex).
HexLen == 5

\* A string is the list of its characters; a hex digit is the number it stands
\* for, any other character is its ASCII code.
HexDigits == {0, 1}

\* "blake3:"
Prefix == <<98, 108, 97, 107, 101, 51, 58>>

\* Blake3Hash::to_string_prefixed: format!("blake3:{}", self.to_hex())
to_string_prefixed(n) == Prefix \o to_hex(n)

\* A strip_prefix that drops the first characters without looking at them.
strip_prefix_unchecked(s) == SubSeq(s, Len(Prefix) + 1, Len(s))

\* s.strip_prefix("blake3:").unwrap_or(s)
strip_prefix(s) ==
    IF Len(s) >= Len(Prefix) /\ SubSeq(s, 1, Len(Prefix)) = Prefix
    THEN SubSeq(s, Len(Prefix) + 1, Len(s))
    ELSE s

\* hex::decode followed by Hash::from: the digest the digits stand for.
RECURSIVE hex_decode(_)
hex_decode(hex) ==
    IF hex = <<>> THEN 0
    ELSE 2 * hex_decode(SubSeq(hex, 1, Len(hex) - 1)) + hex[Len(hex)]

\* Blake3Hash::from_str, lines 104-122, as [status, val].
from_str(s) ==
    LET hex == strip_prefix(s)
    IN IF Len(hex) # HexLen
       THEN [status |-> "err", val |-> "Invalid BLAKE3 hash length"]
       ELSE IF \E i \in DOMAIN hex : hex[i] \notin HexDigits
       THEN [status |-> "err", val |-> "Failed to decode hex hash"]
       ELSE [status |-> "ok", val |-> hex_decode(hex)]

\* ------------------------------------------------------------ Metadata Store

\* The hashes (TEXT keys) the Metadata Store is called with.
DbHashes == {"hash0", "hash1"}
\* The hashes of a lineage: hash0 -> hash1 -> hash2.
ChainHashes == DbHashes \cup {"hash2"}
\* (size, metadata) pairs register_object is called with; <<>> is None.
ObjectInputs == {<<100, <<>>>>, <<200, <<"m">>>>}
DatasetNames == {"ds"}
Versions == {"1.0.0"}
\* (input_hash, output_hash, transform_type, params) of register_transformation.
EdgeInputs == {<<"hash0", "hash1", "extract", <<>>>>}

Deltas == (-MaxDelta)..MaxDelta

DbRet(op, h, status, val) == [op |-> op, hash |-> h, status |-> status, val |-> val]

\* No transaction is open.
NoTx == [state |-> "none", objects |-> {}, transformations |-> {}, seq |-> 0]

\* No get_stats call is running.
NoStats ==
    [state |-> "idle", objects_count |-> 0, datasets_count |-> 0,
     transformations_count |-> 0, start |-> <<{}, {}, {}>>]

\* No recursive query is running.
NoChain == [state |-> "idle", hash |-> "", frontier |-> <<>>, levels |-> <<>>, depth |-> 0]

\* SELECT ... FROM objects WHERE hash = ?
RowsOf(h) == {r \in objects : r.hash = h}

\* The FOREIGN KEY clauses of datasets and transformations (lines 124, 141, 142):
\* the rows that reference objects(hash) = h.
Referenced(h) ==
    \/ \E d \in datasets : d.manifest_hash = h
    \/ \E t \in transformations : t.input_hash = h \/ t.output_hash = h

\* An upsert that gives a hash whose row was deleted its earlier count back.
register_object_restoring(h, size, metadata) ==
    IF RowsOf(h) = {}
    THEN objects \cup
           {[hash |-> h, size |-> size, metadata |-> metadata,
             refs |-> IF h \in DOMAIN deleted_refs /\ deleted_refs[h] # {}
                      THEN CHOOSE n \in deleted_refs[h] : TRUE ELSE 1]}
    ELSE {IF r.hash = h THEN [r EXCEPT !.refs = @ + 1] ELSE r : r \in objects}

\* An upsert whose update takes the count from the row that was to be inserted.
register_object_excluded(h, size, metadata) ==
    IF RowsOf(h) = {}
    THEN objects \cup {[hash |-> h, size |-> size, refs |-> 1, metadata |-> metadata]}
    ELSE {IF r.hash = h THEN [r EXCEPT !.refs = 1 + 1] ELSE r : r \in objects}

\* INSERT INTO objects (hash, size, metadata) VALUES (?, ?, ?)
\* ON CONFLICT(hash) DO UPDATE SET refs = refs + 1      (refs DEFAULT 1)
register_object_sql(h, size, metadata) ==
    IF RowsOf(h) = {}
    THEN objects \cup {[hash |-> h, size |-> size, refs |-> 1, metadata |-> metadata]}
    ELSE {IF r.hash = h THEN [r EXCEPT !.refs = @ + 1] ELSE r : r \in objects}

\* register_object, lines 175-197.
RegisterObject(h, size, metadata) ==
    /\ regs[h] < MaxRegs
    /\ objects' = register_object_sql(h, size, metadata)
    /\ regs' = [regs EXCEPT ![h] = @ + 1]
    /\ dbret' = DbRet("register_object", h, "ok", {})
    /\ UNCHANGED <<datasets, transformations, dataset_seq, transformation_seq, now, dsum>>

\* get_object, lines 200-209: the row as an Option (a set of at most one row).
get_object(h) == RowsOf(h)

GetObject(h) ==
    /\ dbret' = DbRet("get_object", h, "ok", get_object(h))
    /\ UNCHANGED <<objects, datasets, transformations, dataset_seq, transformation_seq,
                   now, regs, dsum>>

\* An update that does not let refs fall below zero.
update_refs_clamped(h, delta) ==
    {IF r.hash = h
     THEN [r EXCEPT !.refs = IF @ + delta < 0 THEN 0 ELSE @ + delta]
     ELSE r : r \in objects}

\* An update that makes the row when the hash has none.
update_refs_upsert(h, delta) ==
    IF RowsOf(h) = {}
    THEN objects \cup {[hash |-> h, size |-> 0, refs |-> delta, metadata |-> <<>>]}
    ELSE {IF r.hash = h THEN [r EXCEPT !.refs = @ + delta] ELSE r : r \in objects}

\* UPDATE objects SET refs = refs + ? WHERE hash = ?
update_refs_sql(h, delta) ==
    {IF r.hash = h THEN [r EXCEPT !.refs = @ + delta] ELSE r : r \in objects}

\* update_refs, lines 212-221.
UpdateRefs(h, delta) ==
    /\ RowsOf(h) # {} => (dsum[h] + delta) \in (-MaxSum)..MaxSum
    /\ objects' = update_refs_sql(h, delta)
    /\ dsum' = IF RowsOf(h) # {} THEN [dsum EXCEPT ![h] = @ + delta] ELSE dsum
    /\ dbret' = DbRet("update_refs", h, "ok", {})
    /\ UNCHANGED <<datasets, transformations, dataset_seq, transformation_seq, now, regs>>

\* A delete on a connection that does not enforce foreign keys.
DeleteObjectNoForeignKeys(h) ==
    /\ objects' = objects \ RowsOf(h)
    /\ regs' = [regs EXCEPT ![h] = 0]
    /\ dsum' = [dsum EXCEPT ![h] = 0]
    /\ dbret' = DbRet("delete_object", h, "ok", {})
    /\ UNCHANGED <<datasets, transformations, dataset_seq, transformation_seq, now>>

\* A delete that takes the rows that reference the object with it
\* (ON DELETE CASCADE).
DeleteObjectCascade(h) ==
    /\ objects' = objects \ RowsOf(h)
    /\ datasets' = {d \in datasets : d.manifest_hash # h}
    /\ transformations' = {t \in transformations : t.input_hash # h /\ t.output_hash # h}
    /\ regs' = [regs EXCEPT ![h] = 0]
    /\ dsum' = [dsum EXCEPT ![h] = 0]
    /\ dbret' = DbRet("delete_object", h, "ok", {})
    /\ UNCHANGED <<dataset_seq, transformation_seq, now>>

\* delete_object, lines 226-235: DELETE FROM objects WHERE hash = ?. The
\* connection enforces foreign keys (the options of lines 30-33 leave sqlx's
\* foreign_keys pragma on), so the statement fails, and removes nothing, when a
\* dataset or a transformation references the row.
DeleteObject(h) ==
    IF RowsOf(h) # {} /\ Referenced(h)
    THEN /\ dbret' = DbRet("delete_object", h, "err", {"FOREIGN KEY constraint failed"})
         /\ UNCHANGED <<objects, datasets, transformations, dataset_seq,
                        transformation_seq, now, regs, dsum>>
    ELSE /\ objects' = objects \ RowsOf(h)
         /\ regs' = [regs EXCEPT ![h] = 0]
         /\ dsum' = [dsum EXCEPT ![h] = 0]
         /\ dbret' = DbRet("delete_object", h, "ok", {})
         /\ UNCHANGED <<datasets, transformations, dataset_seq, transformation_seq, now>>

\* A report of the rows whose count is below zero only.
get_unreferenced_negative == {r.hash : r \in {x \in objects : x.refs < 0}}

\* SELECT hash FROM objects WHERE refs <= 0
get_unreferenced_objects == {r.hash : r \in {x \in objects : x.refs <= 0}}

\* get_unreferenced_objects, lines 238-244.
GetUnreferencedObjects ==
    /\ dbret' = DbRet("get_unreferenced_objects", "", "ok", get_unreferenced_objects)
    /\ UNCHANGED <<objects, datasets, transformations, dataset_seq, transformation_seq,
                   now, regs, dsum>>

\* An upsert that keeps the row it finds (ON CONFLICT DO NOTHING).
RegisterDatasetDoNothing(name, version, manifest_hash) ==
    LET old == {d \in datasets : d.name = name /\ d.version = version}
    IN /\ RowsOf(manifest_hash) # {}
       /\ IF old = {}
          THEN /\ dataset_seq' = dataset_seq + 1
               /\ datasets' = datasets \cup
                     {[id |-> dataset_seq + 1, name |-> name, version |-> version,
                       manifest_hash |-> manifest_hash, created_at |-> now]}
               /\ dbret' = DbRet("register_dataset", manifest_hash, "ok", {dataset_seq + 1})
          ELSE /\ UNCHANGED <<dataset_seq, datasets>>
               /\ dbret' = DbRet("register_dataset", manifest_hash, "ok", {d.id : d \in old})
       /\ UNCHANGED <<objects, transformations, transformation_seq, now, regs, dsum>>

\* A registration that also counts the reference to the manifest object.
RegisterDatasetCounting(name, version, manifest_hash) ==
    LET old == {d \in datasets : d.name = name /\ d.version = version}
    IN /\ RowsOf(manifest_hash) # {}
       /\ IF old = {}
          THEN /\ dataset_seq' = dataset_seq + 1
               /\ datasets' = datasets \cup
                     {[id |-> dataset_seq + 1, name |-> name, version |-> version,
                       manifest_hash |-> manifest_hash, created_at |-> now]}
               /\ dbret' = DbRet("register_dataset", manifest_hash, "ok", {dataset_seq + 1})
          ELSE /\ dataset_seq' = dataset_seq
               /\ datasets' = {IF d \in old
                               THEN [d EXCEPT !.manifest_hash = manifest_hash]
                               ELSE d : d \in datasets}
               /\ dbret' = DbRet("register_dataset", manifest_hash, "ok", {d.id : d \in old})
       /\ objects' = {IF r.hash = manifest_hash THEN [r EXCEPT !.refs = @ + 1] ELSE r :
                         r \in objects}
       /\ UNCHANGED <<transformations, transformation_seq, now, regs, dsum>>

\* register_dataset, lines 249-274:
\* An upsert on a connection that does not enforce foreign keys.
RegisterDatasetNoForeignKeys(name, version, manifest_hash) ==
    LET old == {d \in datasets : d.name = name /\ d.version = version}
    IN /\ IF old = {}
          THEN /\ dataset_seq' = dataset_seq + 1
               /\ datasets' = datasets \cup
                     {[id |-> dataset_seq + 1, name |-> name, version |-> version,
                       manifest_hash |-> manifest_hash, created_at |-> now]}
               /\ dbret' = DbRet("register_dataset", manifest_hash, "ok",
                                 {dataset_seq + 1})
          ELSE /\ dataset_seq' = dataset_seq
               /\ datasets' = {IF d \in old
                               THEN [d EXCEPT !.manifest_hash = manifest_hash]
                               ELSE d : d \in datasets}
               /\ dbret' = DbRet("register_dataset", manifest_hash, "ok",
                                 {d.id : d \in old})
       /\ UNCHANGED <<objects, transformations, transformation_seq, now, regs, dsum>>

\* INSERT INTO datasets (name, version, manifest_hash) VALUES (?, ?, ?)
\* ON CONFLICT(name, version) DO UPDATE SET manifest_hash = excluded.manifest_hash
\* RETURNING id; it fails when no object row has the manifest hash.
RegisterDataset(name, version, manifest_hash) ==
    LET old == {d \in datasets : d.name = name /\ d.version = version}
    IN IF RowsOf(manifest_hash) = {}
       THEN /\ dbret' = DbRet("register_dataset", manifest_hash, "err",
                              {"FOREIGN KEY constraint failed"})
            /\ UNCHANGED <<objects, datasets, transformations, dataset_seq,
                           transformation_seq, now, regs, dsum>>
       ELSE /\ IF old = {}
               THEN /\ dataset_seq' = dataset_seq + 1
                    /\ datasets' = datasets \cup
                          {[id |-> dataset_seq + 1, name |-> name, version |-> version,
                            manifest_hash |-> manifest_hash, created_at |-> now]}
                    /\ dbret' = DbRet("register_dataset", manifest_hash, "ok",
                                      {dataset_seq + 1})
               ELSE /\ dataset_seq' = dataset_seq
                    /\ datasets' = {IF d \in old
                                    THEN [d EXCEPT !.manifest_hash = manifest_hash]
                                    ELSE d : d \in datasets}
                    /\ dbret' = DbRet("register_dataset", manifest_hash, "ok",
                                      {d.id : d \in old})
            /\ UNCHANGED <<objects, transformations, transformation_seq, now, regs, dsum>>

\* The (name, version) keys register_dataset is called with when versions are
\* listed: two versions of one name, and a version of another name.
DatasetKeys == {<<"ds", "1.0.0">>, <<"ds", "2.0.0">>, <<"other", "1.0.0">>}

\* get_dataset, lines 289-299: SELECT ... WHERE name = ? AND version = ?, as an
\* Option (a set of at most one row).
get_dataset(name, version) == {d \in datasets : d.name = name /\ d.version = version}

GetDataset(name, version) ==
    /\ dbret' = DbRet("get_dataset", <<name, version>>, "ok", get_dataset(name, version))
    /\ UNCHANGED <<objects, datasets, transformations, dataset_seq, transformation_seq,
                   now, regs, dsum>>

\* ORDER BY created_at DESC: every listing of the rows, each once, in which
\* created_at does not grow. SQL leaves the order of rows with equal created_at
\* open, and created_at (DEFAULT CURRENT_TIMESTAMP) is a time in whole seconds.
OrderByCreatedAtDesc(rows) ==
    {s \in [1..Cardinality(rows) -> rows] :
        \A i, j \in 1..Cardinality(rows) :
            i < j => (s[i] # s[j] /\ s[i].created_at >= s[j].created_at)}

\* SELECT version FROM datasets WHERE name = ? ORDER BY created_at DESC
get_dataset_versions(name) ==
    {[i \in DOMAIN s |-> s[i].version] :
        s \in OrderByCreatedAtDesc({d \in datasets : d.name = name})}

\* get_dataset_versions, lines 302-311.
GetDatasetVersions(name) ==
    /\ \E versions \in get_dataset_versions(name) :
          dbret' = DbRet("get_dataset_versions", name, "ok", versions)
    /\ UNCHANGED <<objects, datasets, transformations, dataset_seq, transformation_seq,
                   now, regs, dsum>>

\* A second of the clock passes.
Tick ==
    /\ now < MaxNow
    /\ now' = now + 1
    /\ UNCHANGED <<objects, datasets, transformations, dataset_seq, transformation_seq,
                   dbret, regs, dsum>>

\* An insert that returns the id of an identical edge when there is one.
RegisterTransformationDedup(input_hash, output_hash, transform_type, params) ==
    LET same == {t \in transformations :
                    /\ t.input_hash = input_hash /\ t.output_hash = output_hash
                    /\ t.transform_type = transform_type /\ t.params = params}
    IN /\ RowsOf(input_hash) # {} /\ RowsOf(output_hash) # {}
       /\ IF same = {}
          THEN /\ transformation_seq' = transformation_seq + 1
               /\ transformations' = transformations \cup
                     {[id |-> transformation_seq + 1, input_hash |-> input_hash,
                       output_hash |-> output_hash, transform_type |-> transform_type,
                       params |-> params, created_at |-> now]}
               /\ dbret' = DbRet("register_transformation", output_hash, "ok",
                                 {transformation_seq + 1})
          ELSE /\ UNCHANGED <<transformations, transformation_seq>>
               /\ dbret' = DbRet("register_transformation", output_hash, "ok",
                                 {(CHOOSE t \in same : TRUE).id})
       /\ UNCHANGED <<objects, datasets, dataset_seq, now, regs, dsum>>

\* register_transformation, lines 316-347: INSERT INTO transformations ...
\* RETURNING id; it fails when an object row is missing for either hash.
RegisterTransformation(input_hash, output_hash, transform_type, params) ==
    IF RowsOf(input_hash) = {} \/ RowsOf(output_hash) = {}
    THEN /\ dbret' = DbRet("register_transformation", output_hash, "err",
                           {"FOREIGN KEY constraint failed"})
         /\ UNCHANGED <<objects, datasets, transformations, dataset_seq,
                        transformation_seq, now, regs, dsum>>
    ELSE /\ transformation_seq' = transformation_seq + 1
         /\ transformations' = transformations \cup
               {[id |-> transformation_seq + 1, input_hash |-> input_hash,
                 output_hash |-> output_hash, transform_type |-> transform_type,
                 params |-> params, created_at |-> now]}
         /\ dbret' = DbRet("register_transformation", output_hash, "ok",
                           {transformation_seq + 1})
         /\ UNCHANGED <<objects, datasets, dataset_seq, now, regs, dsum>>

\* The edges a lineage is built from: hash0 -> hash1 -> hash2, a second way
\* hash0 -> hash2, an identity edge on hash1, and hash2 -> hash0, which closes
\* a cycle.
ChainEdgeInputs ==
    {<<"hash0", "hash1", "extract", <<>>>>,
     <<"hash1", "hash2", "convert", <<>>>>,
     <<"hash0", "hash2", "convert", <<>>>>,
     <<"hash1", "hash1", "extract", <<>>>>,
     <<"hash2", "hash0", "convert", <<>>>>}

\* The number of rows a level holds, over a set of rows. A level of the
\* recursive query is a bag of edges: level[t] is how many times it holds t.
RECURSIVE CountOver(_, _)
CountOver(rows, level) ==
    IF rows = {} THEN 0
    ELSE LET c == CHOOSE x \in rows : TRUE
         IN level[c] + CountOver(rows \ {c}, level)

\* SELECT ... FROM transformations WHERE output_hash = ?  (lines 356-358)
Producers(h) == [t \in transformations |-> IF t.output_hash = h THEN 1 ELSE 0]

\* SELECT t.* FROM transformations t INNER JOIN chain c
\* ON t.output_hash = c.input_hash  (lines 360-362), for the rows c of one
\* level; UNION ALL keeps a row once for every row c that it joins.
JoinChain(level) ==
    [t \in transformations |->
        CountOver({c \in transformations : c.input_hash = t.output_hash}, level)]

\* The rows of a level, each once.
Support(level) == [t \in transformations |-> IF level[t] > 0 THEN 1 ELSE 0]

\* The level holds no row.
NoRows(level) == \A t \in transformations : level[t] = 0

\* The rows of a level as a list, by rising id, each as often as the level
\* holds it.
RECURSIVE RowsById(_, _)
RowsById(rows, level) ==
    IF rows = {} THEN <<>>
    ELSE LET t == CHOOSE x \in rows : \A y \in rows : x.id <= y.id
         IN [i \in 1..level[t] |-> t] \o RowsById(rows \ {t}, level)

\* The levels in the order of rising depth.
order_by_depth_asc(levels, level) == levels \o <<level>>

\* ORDER BY depth DESC (line 366): the rows of a deeper level come first.
order_by_depth_desc(levels, level) == <<level>> \o levels

\* The orders in which the rows of one level can be returned: ORDER BY depth
\* leaves the order of rows of equal depth open.
Perms(level) ==
    LET rows == RowsById(transformations, level)
    IN {[i \in DOMAIN rows |-> rows[p[i]]] : p \in Permutations(DOMAIN rows)}

RECURSIVE Orderings(_)
Orderings(levels) ==
    IF levels = <<>> THEN {<<>>}
    ELSE {a \o b : a \in Perms(Head(levels)), b \in Orderings(Tail(levels))}

\* get_transformation_chain, lines 352-374: the statement starts with the rows
\* of the initial select, at depth 0.
ChainStart(h) ==
    /\ chain.state = "idle"
    /\ chain' = [state |-> "running", hash |-> h, frontier |-> Producers(h),
                 levels |-> <<>>, depth |-> 0]
    /\ UNCHANGED <<objects, datasets, transformations, dataset_seq, transformation_seq,
                   now, dbret, regs, dsum>>

\* One level of the recursion: the rows of the current level go to the result
\* and the recursive select runs on them. The rows of the levels at depths
\* below MaxDepth are recorded; from depth MaxDepth on only which rows the
\* level holds is kept, which is what decides whether the recursion goes on,
\* and of the depth only whether it is even or odd.
ChainStep ==
    /\ chain.state = "running"
    /\ ~NoRows(chain.frontier)
    /\ chain' = IF chain.depth < MaxDepth
                THEN [chain EXCEPT !.frontier = IF chain.depth + 1 < MaxDepth
                                               THEN JoinChain(chain.frontier)
                                               ELSE Support(JoinChain(chain.frontier)),
                                   !.levels = order_by_depth_desc(chain.levels, chain.frontier),
                                   !.depth = chain.depth + 1]
                ELSE [chain EXCEPT !.frontier = Support(JoinChain(chain.frontier)),
                                   !.depth = IF chain.depth = MaxDepth
                                             THEN MaxDepth + 1 ELSE MaxDepth]
    /\ UNCHANGED <<objects, datasets, transformations, dataset_seq, transformation_seq,
                   now, dbret, regs, dsum>>

\* The recursion ends when a level is empty; the rows are returned by falling
\* depth.
ChainReturn ==
    /\ chain.state = "running"
    /\ NoRows(chain.frontier)
    /\ \E records \in Orderings(chain.levels) :
          dbret' = DbRet("get_transformation_chain", chain.hash, "ok", records)
    /\ chain' = NoChain
    /\ UNCHANGED <<objects, datasets, transformations, dataset_seq, transformation_seq,
                   now, regs, dsum>>

\* The edges the cache is filled with: two outputs for (hash0, extract, None),
\* and edges that differ from it in the params, the type or the input.
CacheEdgeInputs ==
    {<<"hash0", "hash1", "extract", <<>>>>,
     <<"hash0", "hash2", "extract", <<>>>>,
     <<"hash0", "hash1", "extract", <<"{}">>>>,
     <<"hash0", "hash1", "convert", <<>>>>,
     <<"hash1", "hash2", "extract", <<>>>>}

\* (input_hash, transform_type, params) the cache is looked up with.
CacheQueries ==
    {<<"hash0", "extract", <<>>>>,
     <<"hash0", "extract", <<"{}">>>>,
     <<"hash0", "convert", <<>>>>,
     <<"hash1", "extract", <<>>>>,
     <<"hash2", "extract", <<>>>>}

\* WHERE ... AND params = ?: in SQL a NULL equals nothing, NULL included.
MatchingEdgesEq(input_hash, transform_type, params) ==
    {t \in transformations :
        /\ t.input_hash = input_hash /\ t.transform_type = transform_type
        /\ params # <<>> /\ t.params = params}

\* WHERE input_hash = ? AND transform_type = ? AND params IS ?  (line 386):
\* IS holds of two NULLs and of two equal texts.
MatchingEdges(input_hash, transform_type, params) ==
    {t \in transformations :
        /\ t.input_hash = input_hash /\ t.transform_type = transform_type
        /\ t.params = params}

\* SELECT output_hash ... ORDER BY created_at DESC LIMIT 1, as the Options (sets
\* of at most one hash) the statement can return.
find_cached_transformation(input_hash, transform_type, params) ==
    {IF s = <<>> THEN {} ELSE {s[1].output_hash} :
        s \in OrderByCreatedAtDesc(MatchingEdges(input_hash, transform_type, params))}

\* find_cached_transformation, lines 377-398.
FindCachedTransformation(input_hash, transform_type, params) ==
    /\ \E output_hash \in find_cached_transformation(input_hash, transform_type, params) :
          dbret' = DbRet("find_cached_transformation",
                         <<input_hash, transform_type, params>>, "ok", output_hash)
    /\ UNCHANGED <<objects, datasets, transformations, dataset_seq, transformation_seq,
                   now, regs, dsum>>

\* Strings that are not the string of a hash: too short, too long, a character
\* that is no hex digit, a prefix alone.
Malformed ==
    {<<>>, <<1, 0, 1>>, <<1, 0, 1, 0, 1, 0>>, <<1, 0, 103, 0, 1>>, Prefix,
     Prefix \o <<1, 0, 103, 0, 1>>, Prefix \o <<1, 0>>}

\* to_hex on a digest.
ToHex(n) ==
    /\ hret' = [op |-> "to_hex", arg |-> n, status |-> "ok", val |-> to_hex(n)]
    /\ UNCHANGED cli

\* to_string_prefixed (and Display) on a digest.
ToStringPrefixed(n) ==
    /\ hret' = [op |-> "to_string_prefixed", arg |-> n, status |-> "ok",
                val |-> to_string_prefixed(n)]
    /\ UNCHANGED cli

\* from_str on a string.
FromStr(s) ==
    /\ hret' = [op |-> "from_str", arg |-> s, status |-> from_str(s).status,
                val |-> from_str(s).val]
    /\ UNCHANGED cli

\* The Content Hasher's strings: a digest is written, bare or prefixed, and
\* the string written last, or one that is no hash, is parsed.
NextHash ==
    \/ \E n \in Digests : ToHex(n) /\ UNCHANGED <<storeVars, dbVars>>
    \/ \E n \in Digests : ToStringPrefixed(n) /\ UNCHANGED <<storeVars, dbVars>>
    \/ /\ hret.op \in {"to_hex", "to_string_prefixed"}
       /\ FromStr(hret.val)
       /\ UNCHANGED <<storeVars, dbVars>>
    \/ \E s \in Malformed : FromStr(s) /\ UNCHANGED <<storeVars, dbVars>>

\* ------------------------------------------------------ Transformation step

\* The Transformation entries a predecessor's history is made of (params None
\* is <<>>, as every Option is the list of at most one value).
Entries ==
    {[transform_type |-> "extract", from |-> "blake3:hash0", params |-> <<>>],
     [transform_type |-> "index", from |-> "blake3:hash1", params |-> <<"p">>]}

\* The transformations lists of the input manifests, up to MaxHistory entries.
Histories == UNION {[1..n -> Entries] : n \in 0..MaxHistory}

\* The manifests the input file can hold: with and without source.archive_hash.
InputManifests ==
    {[schema_version |-> "1.0",
      dataset |-> [name |-> "ds", version |-> "1.0.0", description |-> <<>>],
      source |-> [url |-> <<>>, download_date |-> <<>>, server_mtime |-> <<>>,
                  archive_hash |-> a],
      contents |-> {},
      transformations |-> h] : a \in {<<>>, <<"blake3:hash0">>}, h \in Histories}

\* The files of the output directory.
OutputFiles ==
    {[path |-> "a", bytes |-> <<1, 1>>, executable |-> FALSE],
     [path |-> "b", bytes |-> <<2, 1>>, executable |-> TRUE]}

\* The output directory: missing, or holding some of the files.
OutputDirs ==
    {[exists |-> FALSE, files |-> {}]} \cup
    {[exists |-> TRUE, files |-> f] : f \in SUBSET OutputFiles}

TransformTypes == {"extract", "index"}

\* Lines 96-131: one Content per file of the directory, its hash the hex
\* string of the file's digest. (read_dir gives the files in no stated order;
\* the list is kept as the set of its entries.)
contents_of(output_dir) ==
    {[path |-> f.path, hash |-> from_bytes(f.bytes), size |-> Len(f.bytes),
      executable |-> f.executable] : f \in output_dir.files}

\* Lines 140-144: archive_hash.clone().unwrap_or_else(|| "blake3:unknown")
source_hash(input_manifest_data) ==
    IF input_manifest_data.source.archive_hash = <<>>
    THEN "blake3:unknown"
    ELSE input_manifest_data.source.archive_hash[1]

\* A manifest that starts its history over with the new entry.
output_manifest_fresh(input_manifest_data, contents, transform_type) ==
    [schema_version |-> "1.0",
     dataset |-> input_manifest_data.dataset,
     source |-> input_manifest_data.source,
     contents |-> contents,
     transformations |->
        <<[transform_type |-> transform_type,
           from |-> source_hash(input_manifest_data), params |-> <<>>]>>]

\* Lines 146-164: the new Transformation is pushed onto a clone of the input's
\* transformations; dataset and source are cloned from the input.
output_manifest(input_manifest_data, contents, transform_type) ==
    [schema_version |-> "1.0",
     dataset |-> input_manifest_data.dataset,
     source |-> input_manifest_data.source,
     contents |-> contents,
     transformations |->
        Append(input_manifest_data.transformations,
               [transform_type |-> transform_type,
                from |-> source_hash(input_manifest_data), params |-> <<>>])]

\* transform_command, lines 73-173. The input file is read and parsed, the
\* output directory scanned, the manifest printed to stdout. No store is
\* opened.
TransformCommand(readable, input_manifest_data, output_dir, transform_type) ==
    /\ cli' =
         [cmd |-> "transform",
          arg |-> [readable |-> readable, input |-> input_manifest_data,
                   output_dir |-> output_dir, transform_type |-> transform_type],
          status |-> IF readable /\ output_dir.exists /\ output_dir.files # {}
                     THEN "ok" ELSE "err",
          out |-> IF ~readable
                  THEN <<"Failed to read input manifest">>
                  ELSE IF ~output_dir.exists
                  THEN <<"Output directory does not exist">>
                  ELSE IF output_dir.files = {}
                  THEN <<"No files found in output directory">>
                  ELSE <<output_manifest(input_manifest_data, contents_of(output_dir),
                                         transform_type)>>]
    /\ UNCHANGED <<storeVars, dbVars, hret>>

\* The transform command, on an input file that holds a manifest or cannot be
\* read or parsed, and on the manifest the previous step printed.
NextTransform ==
    \/ \E m \in InputManifests, d \in OutputDirs, t \in TransformTypes :
          TransformCommand(TRUE, m, d, t)
    \/ \E m \in InputManifests, d \in OutputDirs, t \in TransformTypes :
          TransformCommand(FALSE, m, d, t)
    \/ \E d \in OutputDirs, t \in TransformTypes :
          /\ cli.cmd = "transform" /\ cli.status = "ok"
          /\ Len(cli.out[1].transformations) <= MaxHistory
          /\ TransformCommand(TRUE, cli.out[1], d, t)

\* ------------------------------------------------------- Garbage collection

\* The bytes whose hash a key of the Metadata Store stands for, and the path
\* the Object Store keeps them at.
BytesOf(h) == IF h = "hash0" THEN <<1, 1>> ELSE <<2, 1>>
PathOf(h) == hash_to_path(from_bytes(BytesOf(h)))

\* The files that remain when the objects of the hashes gone are removed.
FilesWithout(gone) ==
    [q \in DOMAIN files \ {PathOf(h) : h \in gone} |-> files[q]]

GcPrinted(dry_run) ==
    [cmd |-> "gc", arg |-> <<dry_run>>, status |-> "ok",
     out |-> <<"Stub: Would run garbage collection",
               "This will be implemented in Phase 4">>]

\* A pass that removes every object, referenced or not.
GcIgnoringRefs(dry_run) ==
    /\ cli' = GcPrinted(dry_run)
    /\ files' = IF dry_run THEN files ELSE FilesWithout(DbHashes)
    /\ objects' = IF dry_run THEN objects ELSE {}
    /\ UNCHANGED <<dirs, pc, call, off, linked, ret, overlap, wrote, anyDelete, crashed,
                   datasets, transformations, dataset_seq, transformation_seq, now,
                   dbret, chain, regs, dsum, metaVars, hret>>

\* A pass that removes the rows of the candidates and leaves their files.
GcRowsOnly(dry_run) ==
    /\ cli' = GcPrinted(dry_run)
    /\ objects' = IF dry_run THEN objects
                  ELSE {r \in objects : r.hash \notin get_unreferenced_objects}
    /\ UNCHANGED <<storeVars, datasets, transformations, dataset_seq,
                   transformation_seq, now, dbret, chain, regs, dsum, metaVars, hret>>

\* A pass that removes the candidates from both stores, dry run or not.
GcDryRunDeletes(dry_run) ==
    /\ cli' = GcPrinted(dry_run)
    /\ files' = FilesWithout(get_unreferenced_objects)
    /\ objects' = {r \in objects : r.hash \notin get_unreferenced_objects}
    /\ UNCHANGED <<dirs, pc, call, off, linked, ret, overlap, wrote, anyDelete, crashed,
                   datasets, transformations, dataset_seq, transformation_seq, now,
                   dbret, chain, regs, dsum, metaVars, hret>>

\* Commands::Gc, main.rs lines 216-221: the command logs, prints two lines and
\* returns Ok; it opens neither store.
Gc(dry_run) ==
    /\ cli' = GcPrinted(dry_run)
    /\ UNCHANGED <<storeVars, dbVars, hret>>

\* The program next to its stores: one process puts objects, objects are
\* registered and their references released, a dataset and an edge are recorded, and
\* the gc command runs, dry or live, at any point in between.
NextGc ==
    \/ \E data \in Payloads : PutCheck("p1", data) /\ UNCHANGED <<dbVars, progVars>>
    \/ PutMkdir("p1") /\ UNCHANGED <<dbVars, progVars>>
    \/ PutCreate("p1") /\ UNCHANGED <<dbVars, progVars>>
    \/ PutWrite("p1") /\ UNCHANGED <<dbVars, progVars>>
    \/ PutSync("p1") /\ UNCHANGED <<dbVars, progVars>>
    \/ \E h \in DbHashes : RegisterObject(h, 100, <<>>) /\ UNCHANGED <<storeVars, chain, metaVars, progVars>>
    \/ \E h \in DbHashes :
          /\ \E r \in RowsOf(h) : r.refs > 0
          /\ UpdateRefs(h, -1)
          /\ UNCHANGED <<storeVars, chain, metaVars, progVars>>
    \/ \E h \in DbHashes :
          /\ datasets = {}
          /\ RegisterDataset("ds", "1.0.0", h)
          /\ UNCHANGED <<storeVars, chain, metaVars, progVars>>
    \/ \E e \in EdgeInputs :
          /\ transformations = {}
          /\ RegisterTransformation(e[1], e[2], e[3], e[4])
          /\ UNCHANGED <<storeVars, chain, metaVars, progVars>>
    \/ \E dry_run \in BOOLEAN : Gc(dry_run)

\* delete_object, and with it the note of the refs the removed row had.
DeleteObjectNoted(h) ==
    /\ DeleteObject(h)
    /\ deleted_refs' = IF RowsOf(h) # {} /\ ~Referenced(h)
               THEN [deleted_refs EXCEPT ![h] = {r.refs : r \in RowsOf(h)}]
               ELSE deleted_refs
    /\ UNCHANGED <<storeVars, chain, schema_version, migrations, conn, tx, stats,
                   progVars>>

\* Rows are registered, released, deleted and registered again.
NextResurrect ==
    \/ \E h \in DbHashes, in \in ObjectInputs :
          RegisterObject(h, in[1], in[2]) /\ UNCHANGED <<storeVars, chain, metaVars, progVars>>
    \/ \E h \in DbHashes :
          /\ \E r \in RowsOf(h) : r.refs > 0
          /\ UpdateRefs(h, -1)
          /\ UNCHANGED <<storeVars, chain, metaVars, progVars>>
    \/ \E h \in DbHashes : DeleteObjectNoted(h)
    \/ \E h \in DbHashes : GetObject(h) /\ UNCHANGED <<storeVars, chain, metaVars, progVars>>

\* ------------------------------------------------------------------ get_stats

\* SUM(size) over a set of object rows.
RECURSIVE SumSize(_)
SumSize(rows) ==
    IF rows = {} THEN 0
    ELSE LET r == CHOOSE x \in rows : TRUE
         IN r.size + SumSize(rows \ {r})

\* A sum that counts a row's size once per reference.
total_size_per_ref == SumSize({r \in objects : r.refs < 2}) + 2 * SumSize({r \in objects : r.refs >= 2})

\* SELECT COALESCE(SUM(size), 0) FROM objects
total_size == SumSize(objects)

\* What get_stats leaves alone: it reads, and writes no table.
StatsFrame ==
    UNCHANGED <<objects, datasets, transformations, dataset_seq, transformation_seq,
                now, regs, dsum, chain, schema_version, migrations, conn, tx, deleted_refs,
                storeVars, progVars>>

\* get_stats, lines 422-425: SELECT COUNT(*) FROM objects. (start keeps the
\* tables as they are when the call begins.)
GetStatsObjects ==
    /\ stats.state = "idle"
    /\ stats' = [state |-> "datasets", objects_count |-> Cardinality(objects),
                 datasets_count |-> 0, transformations_count |-> 0,
                 start |-> <<objects, datasets, transformations>>]
    /\ UNCHANGED dbret
    /\ StatsFrame

\* Lines 427-430: SELECT COUNT(*) FROM datasets
GetStatsDatasets ==
    /\ stats.state = "datasets"
    /\ stats' = [stats EXCEPT !.state = "transformations",
                               !.datasets_count = Cardinality(datasets)]
    /\ UNCHANGED dbret
    /\ StatsFrame

\* Lines 432-435: SELECT COUNT(*) FROM transformations
GetStatsTransformations ==
    /\ stats.state = "transformations"
    /\ stats' = [stats EXCEPT !.state = "total_size",
                               !.transformations_count = Cardinality(transformations)]
    /\ UNCHANGED dbret
    /\ StatsFrame

\* Lines 437-447: the sum of the sizes is read and the four values returned.
GetStatsReturn ==
    /\ stats.state = "total_size"
    /\ dbret' = DbRet("get_stats", "", "ok",
                      {[objects_count |-> stats.objects_count,
                        datasets_count |-> stats.datasets_count,
                        transformations_count |-> stats.transformations_count,
                        total_size |-> total_size]})
    /\ stats' = NoStats
    /\ StatsFrame

\* get_stats next to the statements that write the tables; each of its four
\* queries is a statement of its own on the pool.
NextStats ==
    \/ GetStatsObjects
    \/ GetStatsDatasets
    \/ GetStatsTransformations
    \/ GetStatsReturn
    \/ \E h \in DbHashes, in \in ObjectInputs :
          RegisterObject(h, in[1], in[2]) /\ UNCHANGED <<storeVars, chain, metaVars, progVars>>
    \/ \E h \in DbHashes : DeleteObject(h) /\ UNCHANGED <<storeVars, chain, metaVars, progVars>>
    \/ \E name \in DatasetNames, version \in Versions, h \in DbHashes :
          RegisterDataset(name, version, h) /\ UNCHANGED <<storeVars, chain, metaVars, progVars>>
    \/ \E e \in EdgeInputs :
          /\ transformations = {}
          /\ RegisterTransformation(e[1], e[2], e[3], e[4])
          /\ UNCHANGED <<storeVars, chain, metaVars, progVars>>

\* --------------------------------------------------------------- Transactions

\* What with_transaction and the statements of its closure leave alone.
TxFrame ==
    UNCHANGED <<storeVars, progVars, datasets, dataset_seq, now, chain, regs, dsum,
                schema_version, migrations, conn, stats, deleted_refs>>

\* The tables as the transaction's connection sees them: its own writes once
\* it has written, the committed tables before.
TxObjects == IF tx.state = "writing" THEN tx.objects ELSE objects
TxTransformations == IF tx.state = "writing" THEN tx.transformations ELSE transformations
TxSeq == IF tx.state = "writing" THEN tx.seq ELSE transformation_seq

\* with_transaction, line 414: pool.begin() (BEGIN, which takes no lock yet).
TxBegin ==
    /\ tx.state = "none"
    /\ tx' = [NoTx EXCEPT !.state = "open"]
    /\ UNCHANGED <<objects, transformations, transformation_seq, dbret>>
    /\ TxFrame

\* The statement of register_object run on a pool connection from inside the
\* closure: it commits by itself.
TxRegisterObjectOnPool(h, size, metadata) ==
    /\ tx.state \in {"open", "writing"}
    /\ \A r \in RowsOf(h) : r.refs < MaxRegs
    /\ objects' = register_object_sql(h, size, metadata)
    /\ tx' = [state |-> "writing", objects |-> TxObjects,
              transformations |-> TxTransformations, seq |-> TxSeq]
    /\ UNCHANGED <<transformations, transformation_seq, dbret>>
    /\ TxFrame

\* The closure (line 415) runs the statement of register_object on the
\* connection it was given: the first write takes the write lock, and the row
\* is the transaction's own until commit.
TxRegisterObject(h, size, metadata) ==
    /\ tx.state \in {"open", "writing"}
    /\ \A r \in TxObjects : r.hash = h => r.refs < MaxRegs
    /\ tx' = [state |-> "writing",
              objects |->
                 IF \E r \in TxObjects : r.hash = h
                 THEN {IF r.hash = h THEN [r EXCEPT !.refs = @ + 1] ELSE r : r \in TxObjects}
                 ELSE TxObjects \cup
                        {[hash |-> h, size |-> size, refs |-> 1, metadata |-> metadata]},
              transformations |-> TxTransformations,
              seq |-> TxSeq]
    /\ UNCHANGED <<objects, transformations, transformation_seq, dbret>>
    /\ TxFrame

\* The closure runs the statement of register_transformation on its
\* connection; both hashes have rows in the tables the transaction sees.
TxRegisterTransformation(input_hash, output_hash, transform_type, params) ==
    /\ tx.state \in {"open", "writing"}
    /\ Cardinality(TxTransformations) < MaxEdges
    /\ \E r \in TxObjects : r.hash = input_hash
    /\ \E r \in TxObjects : r.hash = output_hash
    /\ tx' = [state |-> "writing",
              objects |-> TxObjects,
              transformations |-> TxTransformations \cup
                 {[id |-> TxSeq + 1, input_hash |-> input_hash,
                   output_hash |-> output_hash, transform_type |-> transform_type,
                   params |-> params, created_at |-> now]},
              seq |-> TxSeq + 1]
    /\ UNCHANGED <<objects, transformations, transformation_seq, dbret>>
    /\ TxFrame

\* The closure returns Err (line 415): `?` returns it, the transaction is
\* dropped and with it rolled back.
TxClosureErr ==
    /\ tx.state \in {"open", "writing"}
    /\ tx' = NoTx
    /\ dbret' = DbRet("with_transaction", "closure", "err", {})
    /\ UNCHANGED <<objects, transformations, transformation_seq>>
    /\ TxFrame

\* tx.commit() fails (line 416): `?` returns the error, the transaction is
\* dropped and with it rolled back.
TxCommitFails ==
    /\ tx.state \in {"open", "writing"}
    /\ tx' = NoTx
    /\ dbret' = DbRet("with_transaction", "commit", "err", {})
    /\ UNCHANGED <<objects, transformations, transformation_seq>>
    /\ TxFrame

\* tx.commit() succeeds (lines 416-417): the transaction's tables become the
\* committed ones.
TxCommit ==
    /\ tx.state \in {"open", "writing"}
    /\ objects' = TxObjects
    /\ transformations' = TxTransformations
    /\ transformation_seq' = TxSeq
    /\ tx' = NoTx
    /\ dbret' = DbRet("with_transaction", "", "ok", {})
    /\ TxFrame

\* with_transaction next to the pool's other connections: a statement that
\* writes waits while the transaction holds the write lock, a statement that
\* reads sees the committed tables.
NextTx ==
    \/ TxBegin
    \/ \E h \in DbHashes, in \in ObjectInputs : TxRegisterObject(h, in[1], in[2])
    \/ \E e \in EdgeInputs : TxRegisterTransformation(e[1], e[2], e[3], e[4])
    \/ TxClosureErr
    \/ TxCommitFails
    \/ TxCommit
    \/ \E h \in DbHashes :
          /\ tx.state # "writing"
          /\ RegisterObject(h, 100, <<>>)
          /\ UNCHANGED <<storeVars, chain, metaVars, progVars>>
    \/ \E h \in DbHashes : GetObject(h) /\ UNCHANGED <<storeVars, chain, metaVars, progVars>>

\* get_schema_version: SELECT COALESCE(MAX(version), 0) FROM schema_version
get_schema_version ==
    IF schema_version = <<>> THEN 0
    ELSE CHOOSE v \in {schema_version[i] : i \in DOMAIN schema_version} :
             \A i \in DOMAIN schema_version : schema_version[i] <= v

\* What MetadataDb::new and its schema statements leave alone.
SchemaFrame ==
    UNCHANGED <<objects, datasets, transformations, dataset_seq, transformation_seq,
                now, regs, dsum, chain, tx, stats, deleted_refs, storeVars, progVars>>

\* An initialize_schema that runs the migration whatever the version is.
InitializeSchemaAlways(p) ==
    /\ conn[p] = "closed"
    /\ conn' = [conn EXCEPT ![p] = "migrate"]
    /\ UNCHANGED <<schema_version, migrations, dbret>>
    /\ SchemaFrame

\* MetadataDb::new up to the version check of initialize_schema (lines 53-69):
\* CREATE TABLE IF NOT EXISTS schema_version, then the version is read. A
\* database at version 1 or later is opened as it is.
InitializeSchema(p) ==
    /\ conn[p] = "closed"
    /\ IF get_schema_version < 1
       THEN /\ conn' = [conn EXCEPT ![p] = "migrate"]
            /\ UNCHANGED dbret
       ELSE /\ conn' = [conn EXCEPT ![p] = "ready"]
            /\ dbret' = DbRet("new", "", "ok", {})
    /\ UNCHANGED <<schema_version, migrations>>
    /\ SchemaFrame

\* apply_migration_v1 (line 70): every statement is CREATE ... IF NOT EXISTS, so
\* tables that exist keep their rows.
ApplyMigrationV1(p) ==
    /\ conn[p] = "migrate"
    /\ migrations' = migrations + 1
    /\ conn' = [conn EXCEPT ![p] = "set_version"]
    /\ UNCHANGED <<schema_version, dbret>>
    /\ SchemaFrame

\* set_schema_version(1) (line 71): INSERT INTO schema_version; version is the
\* PRIMARY KEY, so a second row with the same version is refused and new fails.
SetSchemaVersion(p) ==
    /\ conn[p] = "set_version"
    /\ IF \E i \in DOMAIN schema_version : schema_version[i] = 1
       THEN /\ conn' = [conn EXCEPT ![p] = "closed"]
            /\ dbret' = DbRet("new", "", "err", {})
            /\ UNCHANGED schema_version
       ELSE /\ conn' = [conn EXCEPT ![p] = "ready"]
            /\ dbret' = DbRet("new", "", "ok", {})
            /\ schema_version' = Append(schema_version, 1)
    /\ UNCHANGED migrations
    /\ SchemaFrame

\* The MetadataDb is dropped: its pool is closed, the database file stays.
Drop(p) ==
    /\ conn[p] = "ready"
    /\ conn' = [conn EXCEPT ![p] = "closed"]
    /\ UNCHANGED <<schema_version, migrations, dbret>>
    /\ SchemaFrame

\* The database file does not exist yet: no MetadataDb has been constructed.
InitFile ==
    /\ objects = {}
    /\ datasets = {}
    /\ transformations = {}
    /\ dataset_seq = 0
    /\ transformation_seq = 0
    /\ now = 0
    /\ dbret = DbRet("none", "", "ok", {})
    /\ chain = NoChain
    /\ regs = [h \in ChainHashes |-> 0]
    /\ dsum = [h \in ChainHashes |-> 0]
    /\ schema_version = <<>>
    /\ migrations = 0
    /\ conn = [p \in Procs |-> "closed"]
    /\ tx = NoTx
    /\ stats = NoStats
    /\ deleted_refs = [h \in DbHashes |-> {}]

\* A database that is opened, used and reopened by two owners.
NextOpen ==
    \/ \E p \in Procs : InitializeSchema(p)
    \/ \E p \in Procs : ApplyMigrationV1(p)
    \/ \E p \in Procs : SetSchemaVersion(p)
    \/ \E p \in Procs : Drop(p)
    \/ \E h \in DbHashes, in \in ObjectInputs :
          /\ \E p \in Procs : conn[p] = "ready"
          /\ RegisterObject(h, in[1], in[2])
          /\ UNCHANGED <<storeVars, chain, metaVars, progVars>>
    \/ \E name \in DatasetNames, version \in Versions, h \in DbHashes :
          /\ \E p \in Procs : conn[p] = "ready"
          /\ RegisterDataset(name, version, h)
          /\ UNCHANGED <<storeVars, chain, metaVars, progVars>>
    \/ \E e \in EdgeInputs :
          /\ \E p \in Procs : conn[p] = "ready"
          /\ Cardinality(transformations) < MaxEdges
          /\ RegisterTransformation(e[1], e[2], e[3], e[4])
          /\ UNCHANGED <<storeVars, chain, metaVars, progVars>>

\* MetadataDb::new on a fresh database: the schema of apply_migration_v1, no rows.
InitDb ==
    /\ objects = {}
    /\ datasets = {}
    /\ transformations = {}
    /\ dataset_seq = 0
    /\ transformation_seq = 0
    /\ now = 0
    /\ dbret = DbRet("new", "", "ok", {})
    /\ chain = NoChain
    /\ regs = [h \in ChainHashes |-> 0]
    /\ dsum = [h \in ChainHashes |-> 0]
    /\ schema_version = <<1>>
    /\ migrations = 1
    /\ conn = [p \in Procs |-> "ready"]
    /\ tx = NoTx
    /\ stats = NoStats
    /\ deleted_refs = [h \in DbHashes |-> {}]

NextDb ==
    \/ \E h \in DbHashes, in \in ObjectInputs : RegisterObject(h, in[1], in[2]) /\ UNCHANGED <<storeVars, chain, metaVars, progVars>>
    \/ \E h \in DbHashes : GetObject(h) /\ UNCHANGED <<storeVars, chain, metaVars, progVars>>
    \/ \E h \in DbHashes, delta \in Deltas : UpdateRefs(h, delta) /\ UNCHANGED <<storeVars, chain, metaVars, progVars>>
    \/ \E h \in DbHashes : DeleteObject(h) /\ UNCHANGED <<storeVars, chain, metaVars, progVars>>
    \/ GetUnreferencedObjects /\ UNCHANGED <<storeVars, chain, metaVars, progVars>>
    \/ \E name \in DatasetNames, version \in Versions, h \in DbHashes :
          RegisterDataset(name, version, h) /\ UNCHANGED <<storeVars, chain, metaVars, progVars>>
    \/ \E e \in EdgeInputs :
          /\ Cardinality(transformations) < MaxEdges
          /\ RegisterTransformation(e[1], e[2], e[3], e[4])
          /\ UNCHANGED <<storeVars, chain, metaVars, progVars>>

\* The dataset statements: manifests are registered as objects, datasets are
\* registered and re-registered, and read back, while the clock runs.
NextDatasets ==
    \/ \E h \in DbHashes : RegisterObject(h, 100, <<>>) /\ UNCHANGED <<storeVars, chain, metaVars, progVars>>
    \/ \E k \in DatasetKeys, h \in DbHashes :
          RegisterDataset(k[1], k[2], h) /\ UNCHANGED <<storeVars, chain, metaVars, progVars>>
    \/ \E k \in DatasetKeys : GetDataset(k[1], k[2]) /\ UNCHANGED <<storeVars, chain, metaVars, progVars>>
    \/ \E k \in DatasetKeys : GetDatasetVersions(k[1]) /\ UNCHANGED <<storeVars, chain, metaVars, progVars>>
    \/ Tick /\ UNCHANGED <<storeVars, chain, metaVars, progVars>>

\* The lineage: objects are registered, edges are appended, and the chain of a
\* hash is queried. A statement sees the tables as they are when it starts, so
\* no other statement runs inside the recursive query.
NextLineage ==
    \/ \E h \in ChainHashes :
          /\ chain.state = "idle"
          /\ RowsOf(h) = {}
          /\ RegisterObject(h, 100, <<>>)
          /\ UNCHANGED <<storeVars, chain, metaVars, progVars>>
    \/ \E e \in ChainEdgeInputs :
          /\ chain.state = "idle"
          /\ Cardinality(transformations) < MaxChainEdges
          /\ RegisterTransformation(e[1], e[2], e[3], e[4])
          /\ UNCHANGED <<storeVars, chain, metaVars, progVars>>
    \/ \E h \in ChainHashes : ChainStart(h) /\ UNCHANGED <<storeVars, metaVars, progVars>>
    \/ ChainStep /\ UNCHANGED <<storeVars, metaVars, progVars>>
    \/ ChainReturn /\ UNCHANGED <<storeVars, metaVars, progVars>>

\* The transformation cache: objects are registered, edges are appended while
\* the clock runs, and the cache is looked up.
NextCache ==
    \/ \E h \in ChainHashes :
          /\ RowsOf(h) = {}
          /\ RegisterObject(h, 100, <<>>)
          /\ UNCHANGED <<storeVars, chain, metaVars, progVars>>
    \/ \E e \in CacheEdgeInputs :
          /\ Cardinality(transformations) < MaxCacheEdges
          /\ RegisterTransformation(e[1], e[2], e[3], e[4])
          /\ UNCHANGED <<storeVars, chain, metaVars, progVars>>
    \/ \E q \in CacheQueries :
          FindCachedTransformation(q[1], q[2], q[3]) /\ UNCHANGED <<storeVars, chain, metaVars, progVars>>
    \/ Tick /\ UNCHANGED <<storeVars, chain, metaVars, progVars>>

\* ------------------------------------------------- Object Store: the claims

\* The payload whose hash names the object `hex`.
PayloadOf(hex) == CHOOSE x \in Payloads : from_bytes(x) = hex

\* The object file at `path` holds exactly the bytes its name is the hash of.
Complete(path) == files[path] = PayloadOf(path[3])

Quiescent == \A p \in Procs : pc[p] = "idle"

FinishedPut(p) == pc[p] = "idle" /\ call[p].op = "put" /\ ret[p].status # "none"

PathOfPut(p) == hash_to_path(from_bytes(call[p].arg))

\* C1: while puts are in progress (no delete, no crash), whatever a get returns
\* and its caller then reads is the complete payload of the hash asked for;
\* never an empty or partly written file.
C1_GetNeverSeesPartial ==
    (~crashed /\ ~anyDelete) =>
        \A p \in Procs :
            (call[p].op = "get" /\ ret[p].status = "ok")
                => ret[p].content = PayloadOf(call[p].arg)

\* C2: whenever no call is in progress (also after a crash inside put and the
\* restart), every object file of the store holds the bytes its name is the
\* hash of.
C2_ContentAddressedAtRest ==
    Quiescent => \A path \in DOMAIN files : Complete(path)

\* A step in which a put of p returns.
PutReturns(p) ==
    /\ pc'[p] = "idle" /\ call'[p].op = "put" /\ ret'[p].status # "none"
    /\ pc[p] # "idle" \/ call[p] # call'[p] \/ ret[p] # ret'[p]

\* C3: sequential puts (no call of another process overlaps them): every put
\* returns Ok with the hash of its bytes; when it returns, exactly one object
\* file of that hash is in the store; and a put that finds the object present
\* returns at once and leaves the store's files and directories as they are.
C3_SequentialPutsDedup ==
    /\ [](\A p \in Procs :
            (FinishedPut(p) /\ ~overlap[p]) => ret[p] = Ok(from_bytes(call[p].arg)))
    /\ [][\A p \in Procs :
            (PutReturns(p) /\ ~overlap'[p]) =>
                Cardinality({q \in DOMAIN files' : q[3] = from_bytes(call'[p].arg)}) = 1
         ]_vars
    /\ [][\A p \in Procs, data \in Payloads :
            (/\ exists(hash_to_path(from_bytes(data)))
             /\ call'[p] = [op |-> "put", arg |-> data]
             /\ PutCheck(p, data)) =>
                /\ ret'[p] = Ok(from_bytes(data))
                /\ pc'[p] = "idle"
                /\ files' = files
                /\ dirs' = dirs
         ]_vars

\* C3's case: p1 and p2 put the same bytes one after the other; the first wrote
\* the object, the second found it and wrote nothing.
C3_Witness ==
    /\ FinishedPut("p1") /\ FinishedPut("p2")
    /\ call["p1"].arg = call["p2"].arg
    /\ ~overlap["p1"] /\ ~overlap["p2"]
    /\ wrote["p1"] /\ ~wrote["p2"]
    /\ ret["p1"] = ret["p2"] /\ ret["p2"].status = "ok"

\* C4: concurrent puts with no delete and no crash: every put returns Ok with
\* the hash of its own bytes (so puts of the same bytes return the same hash),
\* and once no call is in progress every object file is complete, and the
\* object of every put that returned is the one file of its hash and holds the
\* put's bytes.
C4_ConcurrentPutsConverge ==
    (~crashed /\ ~anyDelete) =>
        /\ \A p \in Procs :
              FinishedPut(p) => ret[p] = Ok(from_bytes(call[p].arg))
        /\ Quiescent =>
              /\ \A path \in DOMAIN files : Complete(path)
              /\ \A p \in Procs :
                    FinishedPut(p) =>
                        /\ exists(PathOfPut(p))
                        /\ files[PathOfPut(p)] = call[p].arg
                        /\ Cardinality({q \in DOMAIN files :
                                          q[3] = from_bytes(call[p].arg)}) = 1

\* C4's case: two overlapping puts of the same bytes, each of which created and
\* wrote the file, have both returned.
C4_Witness ==
    /\ ~crashed /\ ~anyDelete
    /\ FinishedPut("p1") /\ FinishedPut("p2")
    /\ call["p1"].arg = call["p2"].arg
    /\ overlap["p1"] /\ overlap["p2"]
    /\ wrote["p1"] /\ wrote["p2"]

\* C5: once put(x) has returned h, and with no delete (and no crash) at all,
\* the object of h exists and holds exactly x.
C5_PutThenGet ==
    (~crashed /\ ~anyDelete) =>
        \A p \in Procs :
            (FinishedPut(p) /\ ret[p].status = "ok") =>
                /\ exists(PathOfPut(p))
                /\ files[PathOfPut(p)] = call[p].arg

\* C27: delete(hash) removes the object: its remove_file leaves no file at the
\* path, and a delete that no other call overlaps returns success with
\* exists(hash) false; on a hash with no object it fails with a not-found error
\* and changes no file and no directory; and once the file is removed the
\* delete returns success whether or not the cleanup removes the directories.
C27_DeleteRemovesOrNotFound ==
    /\ [][\A p \in Procs :
            (pc[p] = "del_remove" /\ pc'[p] = "del_rmdir_parent") =>
                ~exists(hash_to_path(call[p].arg))'
         ]_vars
    /\ [][\A p \in Procs :
            (/\ pc[p] = "del_rmdir_grandparent" /\ pc'[p] = "idle"
             /\ ret'[p].status # "none") =>
                /\ ret'[p] = Ok(<<>>)
                /\ ~overlap'[p] => ~exists(hash_to_path(call[p].arg))'
         ]_vars
    /\ [][\A p \in Procs, hex \in Hashes :
            (DeleteCheck(p, hex) /\ ~exists(hash_to_path(hex))) =>
                /\ ret'[p] = Err("File not found for deletion")
                /\ pc'[p] = "idle"
                /\ UNCHANGED <<dirs, files>>
         ]_vars

\* C27's case: a delete has returned success with its object gone, while the
\* shard directories, which another object keeps in use, are still there.
C27_Witness ==
    \E p \in Procs :
        /\ pc[p] = "idle" /\ call[p].op = "delete" /\ ret[p] = Ok(<<>>)
        /\ ~exists(hash_to_path(call[p].arg))
        /\ parent(hash_to_path(call[p].arg)) \in dirs
        /\ \E q \in DOMAIN files : parent(q) = parent(hash_to_path(call[p].arg))

\* C35: a put of x that runs while a different hash of the same shard
\* directory is deleted succeeds and leaves x in the store: when p1's put of
\* the bytes 1,1 ends, it returns Ok and the object file holds 1,1, whatever
\* p2's put and delete of the bytes 2,1 do in between.
C35_PutSurvivesShardCleanup ==
    [][(call["p1"].op = "put" /\ pc["p1"] # "idle" /\ pc'["p1"] = "idle") =>
           /\ ret'["p1"].status = "ok"
           /\ exists(hash_to_path(from_bytes(<<1, 1>>)))'
           /\ files'[hash_to_path(from_bytes(<<1, 1>>))] = <<1, 1>>
      ]_vars

\* C36: for every interleaving of put(x) with delete(hash(x)): when the put
\* returns success after the delete has returned, the object is in the store
\* with content x.
C36_PutSuccessMeansStored ==
    [][\A p \in Procs, q \in Procs :
          (/\ p # q
           /\ call[p].op = "put" /\ pc[p] = "put_sync" /\ pc'[p] = "idle"
           /\ ret'[p].status = "ok"
           /\ pc[q] = "idle" /\ call[q].op = "delete"
           /\ call[q].arg = from_bytes(call[p].arg)
           /\ ret[q].status = "ok") =>
              /\ exists(hash_to_path(from_bytes(call[p].arg)))'
              /\ files'[hash_to_path(from_bytes(call[p].arg))] = call[p].arg
      ]_vars

\* C37: a delete removes only the object of its hash. No step of a delete
\* removes or changes the file of another hash, and in every state each
\* object file has its two shard directories.
C37_DeleteLeavesOthers ==
    /\ [][\A p \in Procs :
            (/\ pc[p] \in {"del_remove", "del_rmdir_parent", "del_rmdir_grandparent"}
             /\ pc'[p] # pc[p]) =>
                \A f \in DOMAIN files :
                    f # hash_to_path(call[p].arg) =>
                        (f \in DOMAIN files' /\ files'[f] = files[f])
         ]_vars
    /\ [](\A f \in DOMAIN files : parent(f) \in dirs /\ grandparent(f) \in dirs)

\* C37's case: the delete of the bytes 2,1 has returned success, and the
\* bytes 1,1, which share both shard directories, are in the store.
C37_Witness ==
    \E p \in Procs :
        /\ pc[p] = "idle" /\ call[p] = [op |-> "delete", arg |-> from_bytes(<<2, 1>>)]
        /\ ret[p] = Ok(<<>>)
        /\ ~exists(hash_to_path(from_bytes(<<2, 1>>)))
        /\ exists(hash_to_path(from_bytes(<<1, 1>>)))
        /\ files[hash_to_path(from_bytes(<<1, 1>>))] = <<1, 1>>
        /\ \A q \in Procs : pc[q] = "idle"

\* ----------------------------------------------- Metadata Store: the claims

TablesOtherThanObjects == <<datasets, transformations, dataset_seq, transformation_seq>>

\* C6: register_object on a hash with no row adds one row with refs = 1 and
\* the given size and metadata; on a hash with a row it adds 1 to that row's
\* refs and changes nothing else (no second row, size and metadata kept, every
\* other row and table kept); so a row that k registrations made and whose
\* deltas sum to zero has refs = k.
C6_RegisterObjectUpsert ==
    /\ [][\A h \in DbHashes, in \in ObjectInputs :
            (dbret'.op = "register_object" /\ RegisterObject(h, in[1], in[2])) =>
                /\ UNCHANGED TablesOtherThanObjects
                /\ dbret'.status = "ok"
                /\ IF RowsOf(h) = {}
                   THEN objects' = objects \cup
                            {[hash |-> h, size |-> in[1], refs |-> 1, metadata |-> in[2]]}
                   ELSE \E r \in objects :
                            /\ r.hash = h
                            /\ objects' = (objects \ {r}) \cup
                                              {[r EXCEPT !.refs = r.refs + 1]}
         ]_vars
    /\ [](\A r1, r2 \in objects : r1.hash = r2.hash => r1 = r2)
    /\ [](\A r \in objects : dsum[r.hash] = 0 => r.refs = regs[r.hash])

\* C6's case: a row registered twice, the second time with another size and
\* metadata, has refs = 2 and the first call's size and metadata.
C6_Witness ==
    /\ dbret.op = "register_object"
    /\ \E r \in objects :
          /\ r.hash = dbret.hash
          /\ regs[r.hash] = 2 /\ dsum[r.hash] = 0
          /\ r.refs = 2 /\ r.size = 100 /\ r.metadata = <<>>

\* C7: no lost update: whatever the order in which the register_object and
\* update_refs statements on a hash run, the row's refs is the 1 it was created
\* with, plus one for each later registration, plus the sum of the deltas.
C7_NoLostUpdate ==
    \A r \in objects : r.refs = 1 + (regs[r.hash] - 1) + dsum[r.hash]

\* C7's case: a row that took two registrations and deltas that sum to -2, the
\* last of them an update_refs.
C7_Witness ==
    /\ dbret.op = "update_refs"
    /\ \E r \in objects :
          r.hash = dbret.hash /\ regs[r.hash] = 2 /\ dsum[r.hash] = -2 /\ r.refs = 0

\* C8: what get_unreferenced_objects returns is exactly the hashes whose row
\* has refs <= 0: no hash with refs > 0, every hash at or below zero (so a
\* hash registered twice and then lowered by 2 is in it); and the call changes
\* no table.
C8_UnreferencedReport ==
    /\ [](dbret.op = "get_unreferenced_objects" =>
            /\ \A h \in DbHashes :
                  h \in dbret.val <=> (\E r \in objects : r.hash = h /\ r.refs <= 0)
            /\ \A h \in DbHashes :
                  (regs[h] = 2 /\ dsum[h] = -2) => h \in dbret.val)
    /\ [][(dbret'.op = "get_unreferenced_objects" /\ GetUnreferencedObjects) =>
            UNCHANGED <<objects, datasets, transformations,
                        dataset_seq, transformation_seq>>]_vars

\* C8's case: the report names a hash that two registrations and a total delta
\* of -2 brought to zero, and not a hash whose refs is above zero.
C8_Witness ==
    /\ dbret.op = "get_unreferenced_objects"
    /\ regs["hash0"] = 2 /\ dsum["hash0"] = -2
    /\ "hash0" \in dbret.val
    /\ \E r \in objects : r.hash = "hash1" /\ r.refs > 0
    /\ "hash1" \notin dbret.val

\* C9: update_refs(hash, delta) on an existing row sets its refs to
\* refs + delta, below zero too, and changes no other column, row or table.
C9_UpdateRefsExact ==
    [][dbret'.op = "update_refs" =>
         \A delta \in Deltas :
            LET h == dbret'.hash
            IN (UpdateRefs(h, delta) /\ RowsOf(h) # {}) =>
                 /\ UNCHANGED TablesOtherThanObjects
                 /\ dbret'.status = "ok"
                 /\ \E r \in objects :
                       /\ r.hash = h
                       /\ objects' = (objects \ {r}) \cup
                                         {[r EXCEPT !.refs = r.refs + delta]}
      ]_vars

\* C9's case: an update_refs has left a row with refs below zero.
C9_Witness ==
    /\ dbret.op = "update_refs"
    /\ \E r \in objects : r.hash = dbret.hash /\ r.refs < 0 /\ dsum[r.hash] < 0

C11_RegisterDatasetUpsert ==
    /\ [](\A d1, d2 \in datasets :
            (d1.name = d2.name /\ d1.version = d2.version) => d1 = d2)
    /\ [][\A k \in DatasetKeys, h \in DbHashes :
            (/\ dbret'.op = "register_dataset"
             /\ RegisterDataset(k[1], k[2], h)
             /\ dbret'.status = "ok"
             /\ get_dataset(k[1], k[2]) # {}) =>
                \E d \in datasets :
                    /\ d.name = k[1] /\ d.version = k[2]
                    /\ datasets' = (datasets \ {d}) \cup {[d EXCEPT !.manifest_hash = h]}
                    /\ dbret'.val = {d.id}
                    /\ get_dataset(k[1], k[2])' = {[d EXCEPT !.manifest_hash = h]}
         ]_vars
    /\ [](dbret.op = "get_dataset" =>
            dbret.val = get_dataset(dbret.hash[1], dbret.hash[2]))

\* C11's case: a dataset registered with hash0 and registered again with hash1
\* is read back with hash1 and the id it had.
C11_Witness ==
    /\ dbret.op = "get_dataset"
    /\ dataset_seq = 1
    /\ \E d \in dbret.val : d.id = 1 /\ d.manifest_hash = "hash1"
    /\ regs["hash0"] = 1

\* C12: register_dataset, on a new (name, version) and on one that has a row,
\* leaves the objects table as it was: neither the refs of the manifest object
\* it names nor the refs of the one it supersedes change.
C12_RegisterDatasetKeepsObjects ==
    [][\A k \in DatasetKeys, h \in DbHashes :
          (dbret'.op = "register_dataset" /\ RegisterDataset(k[1], k[2], h)) =>
              objects' = objects
      ]_vars

\* C12's case: a re-registration has replaced hash0 by hash1 in a dataset row,
\* and both objects have the refs their registration gave them.
C12_Witness ==
    /\ dbret.op = "register_dataset" /\ dbret.status = "ok" /\ dbret.hash = "hash1"
    /\ dataset_seq = 1
    /\ \E d \in datasets : d.id = 1 /\ d.manifest_hash = "hash1"
    /\ \A h \in DbHashes : \E r \in objects : r.hash = h /\ r.refs = 1

\* The versions of `name` from the one registered last to the one registered
\* first: the rows by falling id (AUTOINCREMENT ids grow with every new row).
RECURSIVE NewestFirst(_)
NewestFirst(rows) ==
    IF rows = {} THEN <<>>
    ELSE LET d == CHOOSE x \in rows : \A y \in rows : y.id <= x.id
         IN <<d.version>> \o NewestFirst(rows \ {d})

\* C13: get_dataset_versions(name) returns each registered version of the name
\* once, the one registered last first, and no version of another name.
C13_VersionsNewestFirst ==
    dbret.op = "get_dataset_versions" =>
        dbret.val = NewestFirst({d \in datasets : d.name = dbret.hash})

\* -------------------------------------------------------- Lineage: the claims

\* The edges that produce h.
ProducingEdges(h) == {t \in transformations : t.output_hash = h}

\* get_transformation_chain returns: the recursive query ends in this step.
ChainReturns == chain.state = "running" /\ chain'.state = "idle"

\* The edges back from h are a linear chain: h and every hash before it have
\* at most one producing edge, and the walk back ends within n edges.
RECURSIVE LinearChain(_, _)
LinearChain(h, n) ==
    \/ ProducingEdges(h) = {}
    \/ /\ n > 0
       /\ Cardinality(ProducingEdges(h)) = 1
       /\ LinearChain((CHOOSE t \in ProducingEdges(h) : TRUE).input_hash, n - 1)

\* The edges of a linear chain that ends in h, from the root's edge to the
\* edge that produces h.
RECURSIVE RootFirst(_, _)
RootFirst(h, n) ==
    IF ProducingEdges(h) = {} \/ n = 0 THEN <<>>
    ELSE LET t == CHOOSE x \in ProducingEdges(h) : TRUE
         IN RootFirst(t.input_hash, n - 1) \o <<t>>

\* C14: when the edges back from h are a linear chain h0 -> h1 -> ... -> h, in
\* whatever order they were registered, get_transformation_chain(h) returns
\* exactly those edges, the edge h0 -> h1 first and the edge that produces h
\* last; for a hash with no producing edge it returns the empty list.
C14_ChainOfLinearLog ==
    [][ChainReturns =>
          (LinearChain(chain.hash, Cardinality(transformations)) =>
              /\ dbret'.val = RootFirst(chain.hash, Cardinality(transformations))
              /\ (ProducingEdges(chain.hash) = {} => dbret'.val = <<>>))
      ]_vars

\* C14's case: the chain of hash2 over hash0 -> hash1 -> hash2, whose second
\* edge was registered first, has come back with the two edges.
C14_Witness ==
    /\ dbret.op = "get_transformation_chain" /\ dbret.hash = "hash2"
    /\ chain.state = "idle"
    /\ Cardinality(transformations) = 2
    /\ Len(dbret.val) = 2
    /\ dbret.val[1].input_hash = "hash0" /\ dbret.val[1].output_hash = "hash1"
    /\ dbret.val[1].id = 2
    /\ dbret.val[2].input_hash = "hash1" /\ dbret.val[2].output_hash = "hash2"
    /\ dbret.val[2].id = 1

\* The records are one linked path that ends in h and starts at a hash that
\* no edge produces.
LinkedPath(records, h) ==
    records # <<>> =>
        /\ \A i \in 1..(Len(records) - 1) :
              records[i].output_hash = records[i + 1].input_hash
        /\ records[Len(records)].output_hash = h
        /\ ProducingEdges(records[1].input_hash) = {}

\* C15: for every edge log, with several producing edges for a hash too, what
\* get_transformation_chain(h) returns is one linked path: each edge's
\* output_hash is the next edge's input_hash, the last edge produces h, and
\* the first edge's input_hash has no producing edge.
C15_ChainIsLinkedPath ==
    [][ChainReturns => LinkedPath(dbret'.val, chain.hash)]_vars

\* C16: get_transformation_chain(h) ends, for every edge log: a query that
\* is running returns.
C16_ChainTerminates ==
    (chain.state = "running") ~> (chain.state = "idle")

\* C17: every register_transformation that succeeds adds exactly one row,
\* with the call's fields and an id that no row had, also when a row with
\* the same input_hash, output_hash, type and params exists; the table has one
\* row more and every row it had.
C17_RegisterTransformationAppends ==
    [][\A e \in ChainEdgeInputs :
          (/\ dbret'.op = "register_transformation"
           /\ dbret'.status = "ok"
           /\ RegisterTransformation(e[1], e[2], e[3], e[4])) =>
              /\ Cardinality(transformations') = Cardinality(transformations) + 1
              /\ \E t \in transformations' :
                    /\ t.id \notin {x.id : x \in transformations}
                    /\ dbret'.val = {t.id}
                    /\ <<t.input_hash, t.output_hash, t.transform_type, t.params>> = e
                    /\ transformations' = transformations \cup {t}
      ]_vars

\* C17's case: the log holds two edges with the same input_hash, output_hash,
\* type and params and different ids, the second one just registered.
C17_Witness ==
    /\ dbret.op = "register_transformation" /\ dbret.status = "ok"
    /\ \E t1, t2 \in transformations :
          /\ t1.id # t2.id /\ dbret.val = {t2.id}
          /\ [t1 EXCEPT !.id = 0] = [t2 EXCEPT !.id = 0]

\* C18: the transformation log is append-only: a step of any operation keeps
\* every edge row, with every field as it was.
C18_EdgesAppendOnly ==
    [][\A t \in transformations : t \in transformations']_vars

\* C18's case: the edge registered first is in the log after a second edge
\* and a dataset on its input object were registered and a delete_object of
\* that object was tried.
C18_Witness ==
    /\ dbret.op = "delete_object" /\ dbret.hash = "hash0"
    /\ transformation_seq = 2
    /\ \E t \in transformations : t.id = 1 /\ t.input_hash = "hash0"
    /\ \E d \in datasets : d.manifest_hash = "hash0"

\* ---------------------------------------------------------- Cache: the claims

\* The edges whose input_hash, type and params are those of the lookup q.
EdgesOf(q) ==
    {t \in transformations :
        <<t.input_hash, t.transform_type, t.params>> = q}

\* C19: find_cached_transformation(input, type, params) returns Some of the
\* output_hash of an edge with that input_hash, type and params when there is
\* such an edge, and None when there is none; absent params match absent
\* params only, and an edge of another type or input gives no hit.
C19_CacheHitIffEdge ==
    [][\A q \in CacheQueries :
          (/\ dbret'.op = "find_cached_transformation" /\ dbret'.hash = q
           /\ FindCachedTransformation(q[1], q[2], q[3])) =>
              IF EdgesOf(q) = {}
              THEN dbret'.val = {}
              ELSE \E t \in EdgesOf(q) : dbret'.val = {t.output_hash}
      ]_vars

\* C19's case: with an edge of hash0 with params to hash1 and one without
\* params to hash2 in the log, the lookup without params has returned hash2.
C19_Witness ==
    /\ dbret.op = "find_cached_transformation"
    /\ dbret.hash = <<"hash0", "extract", <<>>>>
    /\ dbret.val = {"hash2"}
    /\ \E t \in transformations :
          t.input_hash = "hash0" /\ t.params = <<"{}">> /\ t.output_hash = "hash1"
    /\ Cardinality(transformations) = 2

\* C20: when several edges match the lookup, with different output hashes,
\* find_cached_transformation returns the output_hash of the one registered
\* last (the one with the largest id), whatever the times of registration.
C20_CacheReturnsLatest ==
    [][\A q \in CacheQueries :
          (/\ dbret'.op = "find_cached_transformation" /\ dbret'.hash = q
           /\ FindCachedTransformation(q[1], q[2], q[3])
           /\ EdgesOf(q) # {}) =>
              \E t \in EdgesOf(q) :
                  /\ \A x \in EdgesOf(q) : x.id <= t.id
                  /\ dbret'.val = {t.output_hash}
      ]_vars

\* ------------------------------------------------ Garbage collection: claims

\* C21: a live gc pass over a hash whose refs is 0, with no call of the Object
\* Store running, removes it from both stores: get_object finds no row and
\* the object file does not exist afterwards.
C21_LiveGcRemovesUnreferenced ==
    [][(Gc(FALSE) /\ \A p \in Procs : pc[p] = "idle") =>
           \A h \in DbHashes :
               (\E r \in RowsOf(h) : r.refs = 0) =>
                   (get_object(h)' = {} /\ ~exists(PathOf(h))')
      ]_vars

\* C22: no step, of gc or of a call that runs beside it, removes the file or
\* the row of an object whose refs is above zero when the step is taken.
C22_GcKeepsReferenced ==
    [][\A h \in DbHashes :
           (\E r \in RowsOf(h) : r.refs > 0) =>
               /\ RowsOf(h)' # {}
               /\ exists(PathOf(h)) => exists(PathOf(h))'
      ]_vars

\* C22's case: a live gc has run, and the last statement was a register_object
\* that raised hash0 from refs 0 back to 1; its bytes and its row are there.
C22_Witness ==
    /\ cli.cmd = "gc" /\ cli.arg = <<FALSE>>
    /\ dbret.op = "register_object" /\ dbret.hash = "hash0"
    /\ regs["hash0"] = 2 /\ dsum["hash0"] = -1
    /\ \E r \in RowsOf("hash0") : r.refs = 1
    /\ exists(PathOf("hash0")) /\ files[PathOf("hash0")] = BytesOf("hash0")

C24_DryRunReadOnly ==
    [][Gc(TRUE) => UNCHANGED <<dirs, files, objects, datasets, transformations>>]_vars

\* C24's case: a dry-run gc has run while both hashes were candidates with
\* their files in the store and a dataset and an edge were recorded.
C24_Witness ==
    /\ cli.cmd = "gc" /\ cli.arg = <<TRUE>>
    /\ get_unreferenced_objects = DbHashes
    /\ \A h \in DbHashes : exists(PathOf(h))
    /\ datasets # {} /\ transformations # {}

\* --------------------------------------------- Metadata Store: foreign keys

\* C32: register_dataset with a manifest_hash that has no object row, and
\* register_transformation with an input_hash or output_hash that has no
\* object row, fail with a constraint error and leave the datasets and
\* transformations tables unchanged.
C32_MissingObjectRefused ==
    /\ [][\A h \in DbHashes :
            (/\ RowsOf(h) = {}
             /\ dbret'.op = "register_dataset" /\ dbret'.hash = h) =>
                /\ dbret'.status = "err"
                /\ dbret'.val = {"FOREIGN KEY constraint failed"}
                /\ UNCHANGED <<datasets, transformations, dataset_seq,
                               transformation_seq>>
         ]_vars
    /\ [][\A e \in EdgeInputs :
            (/\ RowsOf(e[1]) = {} \/ RowsOf(e[2]) = {}
             /\ dbret'.op = "register_transformation" /\ dbret'.hash = e[2]) =>
                /\ dbret'.status = "err"
                /\ dbret'.val = {"FOREIGN KEY constraint failed"}
                /\ UNCHANGED <<datasets, transformations, dataset_seq,
                               transformation_seq>>
         ]_vars

\* C32's case: a dataset is registered, and a register_dataset that names a
\* hash without an object row has just been refused.
C32_Witness ==
    /\ dbret.op = "register_dataset" /\ dbret.status = "err"
    /\ RowsOf(dbret.hash) = {}
    /\ datasets # {}
    /\ \A d \in datasets : d.manifest_hash # dbret.hash

\* C33: in every state the Metadata Store reaches, delete_object included,
\* the manifest_hash of every dataset row and the input_hash and output_hash
\* of every transformation row have a row in the objects table.
C33_ReferentialIntegrity ==
    /\ \A d \in datasets : RowsOf(d.manifest_hash) # {}
    /\ \A t \in transformations :
          RowsOf(t.input_hash) # {} /\ RowsOf(t.output_hash) # {}

\* C33's case: a delete_object has removed the row of hash1 while a dataset
\* names hash0, whose row is there.
C33_Witness ==
    /\ dbret.op = "delete_object" /\ dbret.status = "ok" /\ dbret.hash = "hash1"
    /\ RowsOf("hash1") = {}
    /\ \E d \in datasets : d.manifest_hash = "hash0"
    /\ RowsOf("hash0") # {}

\* C34: a register_object of a hash whose row delete_object has removed makes
\* a fresh row with refs 1 and the size and metadata of this call, whatever
\* refs the removed row had.
C34_ResurrectedRowIsFresh ==
    [][\A h \in DbHashes, in \in ObjectInputs :
          (/\ RowsOf(h) = {} /\ deleted_refs[h] # {}
           /\ dbret'.op = "register_object" /\ dbret'.hash = h
           /\ regs'[h] = 1
           /\ \E r \in RowsOf(h)' : r.size = in[1] /\ r.metadata = in[2]) =>
              RowsOf(h)' = {[hash |-> h, size |-> in[1], refs |-> 1,
                             metadata |-> in[2]]}
      ]_vars

\* C34's case: the row of hash0 was deleted with refs 2, and register_object
\* has made a row of hash0 with refs 1, size 200 and metadata "m".
C34_Witness ==
    /\ dbret.op = "register_object" /\ dbret.hash = "hash0"
    /\ deleted_refs["hash0"] = {2}
    /\ RowsOf("hash0") = {[hash |-> "hash0", size |-> 200, refs |-> 1,
                           metadata |-> <<"m">>]}

\* C38: update_refs(hash, delta) on a hash that has no object row returns
\* success, makes no row and leaves the objects table as it was.
C38_UpdateRefsOfMissingRow ==
    [][\A h \in DbHashes :
          (RowsOf(h) = {} /\ dbret'.op = "update_refs" /\ dbret'.hash = h) =>
              /\ dbret'.status = "ok"
              /\ RowsOf(h)' = {}
              /\ objects' = objects
      ]_vars

\* C38's case: update_refs has returned for hash1, which has no row, while
\* hash0 has one.
C38_Witness ==
    /\ dbret.op = "update_refs" /\ dbret.hash = "hash1" /\ dbret.status = "ok"
    /\ RowsOf("hash1") = {}
    /\ RowsOf("hash0") # {}

\* ------------------------------------------------ Metadata Store: get_stats

\* The four values of the tables as they are.
StatsNow ==
    [objects_count |-> Cardinality(objects),
     datasets_count |-> Cardinality(datasets),
     transformations_count |-> Cardinality(transformations),
     total_size |-> SumSize(objects)]

\* C31: every value get_stats returns is the value its query read: the three
\* counts are the numbers of rows and total_size is the sum of size over the
\* object rows, 0 for none; a call during which the tables did not change
\* returns the four values of the tables as they are; and a register_object
\* of a hash that has a row changes neither the number of object rows nor the
\* sum of their sizes.
C31_StatsCountRows ==
    /\ [][(stats.state = "idle" /\ stats'.state = "datasets") =>
              stats'.objects_count = Cardinality(objects)]_vars
    /\ [][(stats.state = "datasets" /\ stats'.state = "transformations") =>
              stats'.datasets_count = Cardinality(datasets)]_vars
    /\ [][(stats.state = "transformations" /\ stats'.state = "total_size") =>
              stats'.transformations_count = Cardinality(transformations)]_vars
    /\ [][(stats.state = "total_size" /\ stats'.state = "idle") =>
              /\ dbret'.op = "get_stats" /\ dbret'.status = "ok"
              /\ \A v \in dbret'.val :
                    /\ v.total_size = SumSize(objects)
                    /\ v.objects_count = stats.objects_count
                    /\ v.datasets_count = stats.datasets_count
                    /\ v.transformations_count = stats.transformations_count
                    /\ (stats.start = <<objects, datasets, transformations>>) =>
                          v = StatsNow
         ]_vars
    /\ [][\A h \in DbHashes :
            (RowsOf(h) # {} /\ regs'[h] = regs[h] + 1) =>
                /\ Cardinality(objects') = Cardinality(objects)
                /\ SumSize(objects') = SumSize(objects)
                /\ total_size' = total_size
         ]_vars

\* C31's case: get_stats has returned 2 objects of sizes 100 and 200, one
\* dataset and one edge, after hash0 was registered twice; the tables are as
\* the call reports them.
C31_Witness ==
    /\ dbret.op = "get_stats"
    /\ dbret.val = {StatsNow}
    /\ StatsNow.objects_count = 2 /\ StatsNow.total_size = 300
    /\ StatsNow.datasets_count = 1 /\ StatsNow.transformations_count = 1
    /\ regs["hash0"] = 2

\* A get_stats that returned values no state of the tables had: it counted no
\* object and summed the size of one that was registered in between.
C31_MixedWitness ==
    /\ dbret.op = "get_stats"
    /\ \E v \in dbret.val : v.objects_count = 0 /\ v.total_size > 0

\* ------------------------------------------ Metadata Store: the transactions

\* C26: the writes of with_transaction's closure are one unit. While the
\* transaction has written and has not committed, no step changes a committed
\* table, so no reader sees a part of its writes; a commit that succeeds makes
\* all of them visible in one step; a closure error or a failed commit leaves
\* the committed tables as they were before the call.
C26_TransactionAtomic ==
    /\ [][(/\ tx.state = "writing"
           /\ ~(tx'.state = "none" /\ dbret'.op = "with_transaction"
                                   /\ dbret'.status = "ok")) =>
              UNCHANGED <<objects, datasets, transformations, transformation_seq>>
         ]_vars
    /\ [][(/\ tx.state = "writing" /\ tx'.state = "none"
           /\ dbret'.op = "with_transaction" /\ dbret'.status = "ok") =>
              (objects' = tx.objects /\ transformations' = tx.transformations)
         ]_vars
    /\ [][(/\ tx.state # "none" /\ tx'.state = "none"
           /\ dbret'.op = "with_transaction" /\ dbret'.status = "err") =>
              UNCHANGED <<objects, datasets, transformations, transformation_seq>>
         ]_vars
    /\ [][\A h \in DbHashes :
            (dbret'.op = "get_object" /\ dbret'.hash = h /\ tx.state = "writing") =>
                dbret'.val = RowsOf(h)
         ]_vars

\* C26's case: a transaction that wrote the row of hash1 (register_object was
\* never called on it outside) and an edge has committed; both are visible.
C26_Witness ==
    /\ dbret.op = "with_transaction" /\ dbret.status = "ok"
    /\ tx.state = "none"
    /\ regs["hash1"] = 0 /\ RowsOf("hash1") # {}
    /\ \E t \in transformations : t.output_hash = "hash1"

\* ----------------------------------------------- Metadata Store: the schema

\* C25: opening a database that is already at version 1 applies no migration
\* and leaves the rows of every table as they were; table schema_version
\* never holds version 1 more than once, and no step of an open changes a row
\* of objects, datasets or transformations.
C25_ReopenAppliesNothing ==
    /\ [][\A p \in Procs :
            (/\ conn[p] = "closed" /\ conn'[p] # "closed"
             /\ \E i \in DOMAIN schema_version : schema_version[i] = 1) =>
                /\ conn'[p] = "ready"
                /\ dbret'.op = "new" /\ dbret'.status = "ok"
                /\ UNCHANGED <<schema_version, migrations, objects, datasets,
                               transformations>>
         ]_vars
    /\ [][conn' # conn => UNCHANGED <<objects, datasets, transformations>>]_vars
    /\ [](Cardinality({i \in DOMAIN schema_version : schema_version[i] = 1}) <= 1)

\* C25's case: a database that was migrated once and holds rows in all three
\* tables has just been opened again.
C25_Witness ==
    /\ dbret.op = "new" /\ dbret.status = "ok"
    /\ schema_version = <<1>> /\ migrations = 1
    /\ \A p \in Procs : conn[p] = "ready"
    /\ objects # {} /\ datasets # {} /\ transformations # {}

\* C39: when two owners open the same fresh database concurrently, both opens
\* succeed: an open that has run the migration ends with its version insert
\* accepted and returns Ok, and once an open has returned the table
\* schema_version holds version 1 exactly once.
C39_ConcurrentOpensSucceed ==
    /\ [][\A p \in Procs :
            (conn[p] = "set_version" /\ conn'[p] # "set_version") =>
                /\ conn'[p] = "ready"
                /\ dbret'.op = "new" /\ dbret'.status = "ok"
         ]_vars
    /\ []((\E p \in Procs : conn[p] = "ready") =>
              Cardinality({i \in DOMAIN schema_version : schema_version[i] = 1}) = 1)

\* ------------------------------------------- Transformation step: the claims

\* The step that has just completed: its input manifest, its type, and the
\* manifest it printed.
StepDone == cli.cmd = "transform" /\ cli.status = "ok"
StepIn == cli.arg.input
StepOut == cli.out[1]

\* The printed list is the input's list, unchanged and in order, and one entry
\* more.
KeepsHistory ==
    /\ Len(StepOut.transformations) = Len(StepIn.transformations) + 1
    /\ SubSeq(StepOut.transformations, 1, Len(StepIn.transformations))
          = StepIn.transformations

NewEntry == StepOut.transformations[Len(StepOut.transformations)]

\* C29 as stated: a step's manifest carries the predecessor's list, unchanged
\* and in order, and then exactly one new entry whose type is the given type
\* and whose from is the predecessor's source.archive_hash.
C29_FromIsArchiveHash ==
    StepDone =>
        /\ KeepsHistory
        /\ NewEntry.transform_type = cli.arg.transform_type
        /\ StepIn.source.archive_hash = <<NewEntry.from>>

\* C29, amended: a step's manifest carries the predecessor's list, unchanged
\* and in order, and then exactly one new entry whose type is the given type,
\* whose from is the predecessor's source.archive_hash or, when the
\* predecessor has none, "blake3:unknown", and which has no params.
C29_AppendsOneEntry ==
    StepDone =>
        /\ KeepsHistory
        /\ NewEntry.transform_type = cli.arg.transform_type
        /\ NewEntry.params = <<>>
        /\ NewEntry.from = IF StepIn.source.archive_hash = <<>>
                           THEN "blake3:unknown"
                           ELSE StepIn.source.archive_hash[1]

\* C29's case: a step on a predecessor with a history of two entries and no
\* archive_hash has printed a manifest of three.
C29_Witness ==
    /\ StepDone
    /\ Len(StepIn.transformations) = 2
    /\ StepIn.source.archive_hash = <<>>
    /\ Len(StepOut.transformations) = 3
    /\ NewEntry.from = "blake3:unknown"

\* C30: when a step has completed, its results are in the stores: rows of the
\* produced objects, an edge, the manifest as an object file, a dataset row.
C30_StepRecordedInStores ==
    StepDone =>
        /\ objects # {}
        /\ transformations # {}
        /\ datasets # {}
        /\ DOMAIN files # {}

\* ----------------------------------------------- Content Hasher: the claims

\* C28: for every hash h, parsing its prefixed string ("blake3:" and the hex
\* digits) and parsing its bare hex string both succeed and give h.
C28_HashStringRoundTrip ==
    [][(/\ hret.op \in {"to_hex", "to_string_prefixed"}
        /\ hret'.op = "from_str" /\ hret'.arg = hret.val) =>
           (hret'.status = "ok" /\ hret'.val = hret.arg)
      ]_vars

\* C28's case: the bare hex string of the digest 21 has been parsed to 21.
C28_Witness ==
    /\ hret.op = "from_str" /\ hret.arg = to_hex(21)
    /\ hret.status = "ok" /\ hret.val = 21

\* The program has run no command, the Content Hasher no call.
InitProg ==
    /\ cli = [cmd |-> "none", arg |-> <<>>, status |-> "none", out |-> <<>>]
    /\ hret = [op |-> "none", arg |-> <<>>, status |-> "none", val |-> <<>>]

Init == InitStore /\ InitDb /\ InitProg

\* The Object Store.
Next == NextStore
Spec == Init /\ [][Next]_vars

\* Two objects of one shard directory.
SpecShard == Init /\ [][NextShard]_vars

\* The Metadata Store.
SpecDb == Init /\ [][NextDb]_vars

\* The gc command next to the two stores.
SpecGc == Init /\ [][NextGc]_vars

\* Rows that are deleted and registered again.
SpecResurrect == Init /\ [][NextResurrect]_vars

\* get_stats and the writers of the tables.
SpecStats == Init /\ [][NextStats]_vars

\* with_transaction and the pool.
SpecTx == Init /\ [][NextTx]_vars

\* The transform command.
SpecTransform == Init /\ [][NextTransform]_vars

\* The database file from before its first open.
InitOpen == InitStore /\ InitFile /\ InitProg

SpecOpen == InitOpen /\ [][NextOpen]_vars

\* The Content Hasher.
SpecHash == Init /\ [][NextHash]_vars

\* The datasets of the Metadata Store.
SpecDatasets == Init /\ [][NextDatasets]_vars

\* The transformation cache of the Metadata Store.
SpecCache == Init /\ [][NextCache]_vars

\* The lineage of the Metadata Store.
SpecLineage == Init /\ [][NextLineage]_vars

\* The lineage, with a query that is running going on: SQLite runs a statement
\* that has started until it ends.
SpecLineageFair ==
    /\ SpecLineage
    /\ WF_vars(ChainStep /\ UNCHANGED <<storeVars, metaVars, progVars>>)
    /\ WF_vars(ChainReturn /\ UNCHANGED <<storeVars, metaVars, progVars>>)
====
